---- MODULE Spec2Model ----
(***************************************************************************)
(* A model of xmlserde: the runtime entry points and the Unparsed capture  *)
(* of src/src/lib.rs, and the deserialize / serialize functions that the   *)
(* derive macros of src/derives/src/{de,ser}.rs generate, interpreted over *)
(* a schema description (src/derives/src/container.rs).                    *)
(*                                                                         *)
(* Byte strings (tags, attribute keys, attribute values, text) are tuples  *)
(* of one-character strings, so that ASCII case folding is computed.       *)
(* A quick_xml reader is a sequence of events and a position in it; a      *)
(* quick_xml writer is the sequence of events written.                     *)
(* A record value is the tuple of its field values in declaration order;   *)
(* an Option is a tuple of length at most one, a Vec a tuple.              *)
(* The records modelled declare Attribute, Text, Child and                 *)
(* SelfClosingMarker fields; enums and untagged fields are not declared by *)
(* any of them.                                                            *)
(***************************************************************************)
EXTENDS Integers, Sequences, FiniteSets, TLC

VARIABLES ty, doc, val, out, res, pc

vars == <<ty, doc, val, out, res, pc>>

(***************************************************************************)
(* Bounds of the model.                                                    *)
(***************************************************************************)
\* nesting depth of the element subtrees handed to Unparsed
MaxDepth == 1
\* number of content items (elements, texts) of one element of an input
MaxKids == 2

(***************************************************************************)
(* Bytes.                                                                  *)
(***************************************************************************)
LowerChars == <<"a","b","c","d","e","f","g","h","i","j","k","l","m",
                "n","o","p","q","r","s","t","u","v","w","x","y","z">>
UpperChars == <<"A","B","C","D","E","F","G","H","I","J","K","L","M",
                "N","O","P","Q","R","S","T","U","V","W","X","Y","Z">>

\* u8::to_ascii_lowercase
to_ascii_lowercase_u8(c) ==
    IF \E i \in 1..26 : UpperChars[i] = c
    THEN LowerChars[CHOOSE i \in 1..26 : UpperChars[i] = c]
    ELSE c

\* u8::to_ascii_uppercase
to_ascii_uppercase_u8(c) ==
    IF \E i \in 1..26 : LowerChars[i] = c
    THEN UpperChars[CHOOSE i \in 1..26 : LowerChars[i] = c]
    ELSE c

\* str::to_lowercase / str::to_ascii_lowercase on ASCII input
to_lowercase(s) == [i \in 1..Len(s) |-> to_ascii_lowercase_u8(s[i])]

\* str::to_uppercase on ASCII input
to_uppercase(s) == [i \in 1..Len(s) |-> to_ascii_uppercase_u8(s[i])]

\* <[u8]>::eq_ignore_ascii_case
eq_ignore_ascii_case(a, b) ==
    /\ Len(a) = Len(b)
    /\ \A i \in 1..Len(a) : to_ascii_lowercase_u8(a[i]) = to_ascii_lowercase_u8(b[i])

\* Option<T>: None is the empty tuple, Some(v) the one-element tuple.
None == <<>>
Some(v) == <<v>>
is_some(o) == Len(o) > 0
unwrap(o) == o[1]

(***************************************************************************)
(* quick_xml events.  Every event is a record of the same shape.           *)
(* attrs is the attribute list of a Start / Empty event: <<key, value>>    *)
(* pairs in document order.  Eof is what a reader returns at the end of    *)
(* its input.                                                              *)
(***************************************************************************)
EvStart(n, a) == [k |-> "Start", name |-> n, attrs |-> a, text |-> <<>>]
EvEmpty(n, a) == [k |-> "Empty", name |-> n, attrs |-> a, text |-> <<>>]
EvEnd(n)      == [k |-> "End",   name |-> n, attrs |-> <<>>, text |-> <<>>]
EvText(t)     == [k |-> "Text",  name |-> <<>>, attrs |-> <<>>, text |-> t]
EvEof         == [k |-> "Eof",   name |-> <<>>, attrs |-> <<>>, text |-> <<>>]
\* Err(e) of read_event_into
EvErr         == [k |-> "Err",   name |-> <<>>, attrs |-> <<>>, text |-> <<>>]
\* an Err item of the attribute iterator (a well-formed one is <<key, value>>)
AttrErr       == <<"Err">>

\* Reader::read_event_into: the event at position pos, Eof past the end.
read_event_into(evs, pos) == IF pos > Len(evs) THEN EvEof ELSE evs[pos]

(***************************************************************************)
(* XML escaping, as the writer applies it to text (BytesText::new) and to  *)
(* attribute values given as &str, and as BytesText::unescape undoes it.   *)
(***************************************************************************)
Amp  == <<"&","a","m","p",";">>
Lt   == <<"&","l","t",";">>
Gt   == <<"&","g","t",";">>
Apos == <<"&","a","p","o","s",";">>
Quot == <<"&","q","u","o","t",";">>

escape_u8(c) ==
    CASE c = "&" -> Amp
      [] c = "<" -> Lt
      [] c = ">" -> Gt
      [] c = "'" -> Apos
      [] c = "\"" -> Quot
      [] OTHER -> <<c>>

RECURSIVE escape(_)
escape(s) == IF s = <<>> THEN <<>> ELSE escape_u8(Head(s)) \o escape(Tail(s))

starts_with(s, p) == Len(s) >= Len(p) /\ SubSeq(s, 1, Len(p)) = p
skip(s, n) == SubSeq(s, n + 1, Len(s))

\* BytesText::unescape: Some(unescaped), or None for an unknown or
\* unterminated entity reference (the Err the callers unwrap).
RECURSIVE unescape(_)
unescape(s) ==
    IF s = <<>> THEN Some(<<>>)
    ELSE IF Head(s) # "&"
         THEN LET r == unescape(Tail(s))
              IN IF is_some(r) THEN Some(<<Head(s)>> \o unwrap(r)) ELSE None
    ELSE LET ent == CASE starts_with(s, Amp)  -> <<Amp, "&">>
                      [] starts_with(s, Lt)   -> <<Lt, "<">>
                      [] starts_with(s, Gt)   -> <<Gt, ">">>
                      [] starts_with(s, Apos) -> <<Apos, "'">>
                      [] starts_with(s, Quot) -> <<Quot, "\"">>
                      [] OTHER -> <<>>
         IN IF ent = <<>> THEN None
            ELSE LET r == unescape(skip(s, Len(ent[1])))
                 IN IF is_some(r) THEN Some(<<ent[2]>> \o unwrap(r)) ELSE None

(***************************************************************************)
(* Unparsed (src/src/lib.rs): the opaque capture of an element.            *)
(***************************************************************************)
\* The loop of Unparsed::deserialize: events are pushed until an End whose
\* name is the tag, the end of input or a reader error.
RECURSIVE Unparsed_loop(_, _, _, _)
Unparsed_loop(tag, evs, pos, data) ==
    LET e == read_event_into(evs, pos) IN
    IF e.k = "End" /\ e.name = tag THEN [data |-> data, pos |-> pos + 1]
    ELSE IF e.k = "Eof" THEN [data |-> data, pos |-> pos]
    ELSE IF e.k = "Err" THEN [data |-> data, pos |-> pos + 1]
    ELSE Unparsed_loop(tag, evs, pos + 1, Append(data, e))

\* Unparsed::deserialize(tag, reader, attrs, is_empty); the reader stands
\* at pos, after the element's Start / Empty event.  Returns the capture
\* and the position the reader is left at.
Unparsed_deserialize(tag, evs, pos, attrs, is_empty) ==
    IF is_empty
    THEN [val |-> [data |-> <<>>, attrs |-> attrs], pos |-> pos]
    ELSE LET r == Unparsed_loop(tag, evs, pos, <<>>)
         IN [val |-> [data |-> r.data, attrs |-> attrs], pos |-> r.pos]

\* Unparsed::serialize(&self, tag, writer): the events written.
Unparsed_serialize(u, tag) ==
    LET start_attrs == [i \in 1..Len(u.attrs) |->
                            <<u.attrs[i][1], escape(u.attrs[i][2])>>]
    IN IF u.data # <<>>
       THEN <<EvStart(tag, start_attrs)>> \o u.data \o <<EvEnd(tag)>>
       ELSE <<EvEmpty(tag, start_attrs)>>

(***************************************************************************)
(* Well-formed element subtrees, the inputs of the capture.                *)
(***************************************************************************)
N_others == <<"o","t">>
N_gf     == <<"g","f">>
SubNames == {N_others, N_gf}
V_16     == <<"1","6">>
V_Tom    == <<"T","o","m">>
A_age    == <<"a","g","e">>
A_name   == <<"n","a","m","e">>
SubAttrs == { <<>>, << <<A_age, V_16>> >>,
              << <<A_age, V_16>>, <<A_name, V_Tom>> >>,
              << <<A_name, V_Tom>>, <<A_age, V_16>> >> }
SubTexts == { <<EvText(<<"x">>)>> }

\* the concatenations of at most n members of S, no two texts adjacent
RECURSIVE Concats(_, _)
Concats(S, n) ==
    IF n = 0 THEN { <<>> }
    ELSE LET P == Concats(S, n - 1)
         IN P \cup { y[1] \o y[2] : y \in { z \in S \X P :
                        ~(z[2] # <<>> /\ z[1][Len(z[1])].k = "Text"
                                      /\ z[2][1].k = "Text") } }

\* the elements nested at most d deep below themselves; a nested element
\* holds at most one content item
RECURSIVE Nested(_)
Nested(d) ==
    { <<EvEmpty(n, <<>>)>> : n \in SubNames }
    \cup { <<EvStart(n, <<>>)>> \o c \o <<EvEnd(n)>> :
             n \in SubNames,
             c \in (IF d = 0 THEN { <<>> }
                    ELSE { <<>> } \cup SubTexts \cup Nested(d - 1)) }

\* the element subtrees: the events of one element, Start / Empty first
Subtrees ==
    { <<EvEmpty(n, a)>> : n \in SubNames, a \in SubAttrs }
    \cup { <<EvStart(n, a)>> \o c \o <<EvEnd(n)>> :
             n \in SubNames, a \in SubAttrs,
             c \in Concats(SubTexts \cup Nested(MaxDepth - 1), MaxKids) }

(***************************************************************************)
(* Results of an operation.                                                *)
(***************************************************************************)
NoErr    == [msg |-> "", root |-> <<>>]
NoRes    == [kind |-> "none",  val |-> <<>>, err |-> NoErr, pos |-> 0]
Ok(v, p) == [kind |-> "ok",    val |-> v,    err |-> NoErr, pos |-> p]
ErrRes(e) == [kind |-> "err",  val |-> <<>>, err |-> e,    pos |-> 0]
Panic    == [kind |-> "panic", val |-> <<>>, err |-> NoErr, pos |-> 0]

(***************************************************************************)
(* XmlValue (src/src/lib.rs): the scalar types of attributes and text.     *)
(* A String is its bytes, a bool a BOOLEAN, a u16 a natural number.        *)
(***************************************************************************)
Digits == <<"0","1","2","3","4","5","6","7","8","9">>
is_digit(c) == \E i \in 1..10 : Digits[i] = c
digit_value(c) == (CHOOSE i \in 1..10 : Digits[i] = c) - 1
U16_MAX == (2 ^ 16) - 1

\* u16::to_string
RECURSIVE to_string(_)
to_string(n) ==
    IF n < 10 THEN <<Digits[n + 1]>>
    ELSE to_string(n \div 10) \o <<Digits[(n % 10) + 1]>>

\* the value of a string of digits, or U16_MAX + 1 once it overflows
RECURSIVE parse_digits(_, _)
parse_digits(s, acc) ==
    IF s = <<>> THEN acc
    ELSE LET n == acc * 10 + digit_value(Head(s))
         IN IF n > U16_MAX THEN U16_MAX + 1 ELSE parse_digits(Tail(s), n)

\* str::parse::<u16>: an optional '+', then one or more digits, no
\* overflow.  Some(n) for Ok(n), None for Err.
parse_u16(s) ==
    LET d == IF s # <<>> /\ Head(s) = "+" THEN Tail(s) ELSE s
    IN IF d = <<>> \/ \E i \in 1..Len(d) : ~is_digit(d[i]) THEN None
       ELSE LET n == parse_digits(d, 0)
            IN IF n > U16_MAX THEN None ELSE Some(n)

S_1     == <<"1">>
S_0     == <<"0">>
S_true  == <<"t","r","u","e">>
S_false == <<"f","a","l","s","e">>

\* XmlValue::serialize(&self) for the scalar type t
XmlValue_serialize(t, v) ==
    CASE t = "bool"   -> IF v THEN S_1 ELSE S_0
      [] t = "String" -> v
      [] t = "u16"    -> to_string(v)

\* XmlValue::deserialize(s) for the scalar type t: Some(v) for Ok(v),
\* None for Err.
XmlValue_deserialize(t, s) ==
    CASE t = "bool" ->
            LET l == to_lowercase(s)
            IN IF l = S_1 \/ l = S_true THEN Some(TRUE)
               ELSE IF l = S_0 \/ l = S_false THEN Some(FALSE)
               ELSE None
      [] t = "String" -> Some(s)
      [] t = "u16"    -> parse_u16(s)

(***************************************************************************)
(* Case (src/xmlserde_shared/src/lib.rs).  The policies None, Lowercase    *)
(* and Uppercase are modelled; the other six delegate to the heck crate.   *)
(***************************************************************************)
\* Case::transform(&self, name) and Case::convert(&self, input)
Case_transform(case, name) ==
    CASE case = "None"      -> name
      [] case = "Lowercase" -> to_lowercase(name)
      [] case = "Uppercase" -> to_uppercase(name)

(***************************************************************************)
(* The schema description (src/derives/src/container.rs).                  *)
(* A container is a record                                                 *)
(*   [roots, deny_unknown, rename_all, with_ns, fields, is_enum,           *)
(*    enum_variants]                                                       *)
(* rename_all is None or Some(case).  A field (StructField) is a record    *)
(*   [ident, ty, name, mapped_names, generic, elem, default, vec_size,     *)
(*    skip_serializing]                                                    *)
(* ty is "attr", "child", "text", "sfc", "untagged_enum" or                *)
(* "untagged_struct"; generic is "None", "Opt", "Vec" or "Boxed"; elem is  *)
(* the type inside the generic; name, default and vec_size are Options.    *)
(***************************************************************************)
Field(ident, t, name, maps, generic, elem, default) ==
    [ident |-> ident, ty |-> t, name |-> name, mapped_names |-> maps,
     generic |-> generic, elem |-> elem, default |-> default,
     vec_size |-> None, skip_serializing |-> FALSE]

Container(roots, deny, rename, fields) ==
    [roots |-> roots, deny_unknown |-> deny, rename_all |-> rename,
     with_ns |-> None, fields |-> fields, is_enum |-> FALSE,
     enum_variants |-> <<>>]

\* An enum variant (EnumVariant) is a record [ident, name, ty, ele_type]:
\* name is the Option of its tag, ty the Option of its payload type and
\* ele_type is "child" or "text".  The Container of an enum carries its
\* variants and no fields.
EnumVariant(ident, name, t, ele_type) ==
    [ident |-> ident, name |-> name, ty |-> t, ele_type |-> ele_type]

EnumContainer(roots, variants) ==
    [roots |-> roots, deny_unknown |-> FALSE, rename_all |-> None,
     with_ns |-> None, fields |-> <<>>, is_enum |-> TRUE,
     enum_variants |-> variants]

\* Container::rename_all parsed by parse_case; the generated rename_all()
rename_all(c) == IF is_some(c.rename_all) THEN unwrap(c.rename_all) ELSE "None"

\* Container::get_root_names
get_root_names(c) ==
    IF is_some(c.rename_all)
    THEN [i \in 1..Len(c.roots) |-> Case_transform(unwrap(c.rename_all), c.roots[i])]
    ELSE c.roots

\* Container::get_field_name: Some(name) or None
get_field_name(c, f) ==
    IF is_some(f.name) THEN f.name
    ELSE IF f.mapped_names # <<>> THEN Some(f.mapped_names[1])
    ELSE IF is_some(c.rename_all)
         THEN Some(Case_transform(unwrap(c.rename_all), f.ident))
    ELSE None

\* StructField::is_required
is_required(f) ==
    IF f.ty = "untagged_enum"
    THEN f.generic = "None"
    ELSE ~is_some(f.default) /\ f.generic = "None" /\ f.ty # "sfc"

\* FieldsSummary::from_fields: the indices, in declaration order, of the
\* fields of c whose ty is t
FieldsOf(c, t) ==
    LET RECURSIVE Pick(_)
        Pick(i) == IF i > Len(c.fields) THEN <<>>
                   ELSE (IF c.fields[i].ty = t THEN <<i>> ELSE <<>>) \o Pick(i + 1)
    IN Pick(1)

\* the first member of the sequence idxs whose entry in hits is TRUE, or 0:
\* the first arm of a generated match that matches
FirstOf(idxs, hits) ==
    IF \E j \in 1..Len(idxs) : hits[j]
    THEN idxs[CHOOSE j \in 1..Len(idxs) : hits[j] /\ \A k \in 1..(j - 1) : ~hits[k]]
    ELSE 0

(***************************************************************************)
(* The types under verification, declared as in src/tests/lib.rs: records  *)
(* with attributes and a text, records with children and a self-closing    *)
(* marker, with and without deny_unknown, rename_all and several roots.    *)
(***************************************************************************)
B_person   == <<"p","e","r","s","o","n">>
B_employee == <<"e","m","p","l","o","y","e","e">>
B_pet      == <<"p","e","t">>
B_owner    == <<"o","w","n","e","r">>
B_team     == <<"t","e","a","m">>
B_cage     == <<"c","a","g","e">>
B_age      == <<"a","g","e">>
B_male     == <<"m","a","l","e">>
B_nick     == <<"n","i","c","k">>
B_name     == <<"n","a","m","e">>
B_open     == <<"o","p","e","n">>
B_mate     == <<"m","a","t","e">>
B_id       == <<"i","d">>
B_cap      == <<"c","a","p">>
B_pigeon   == <<"p","g">>
B_dove     == <<"d","v">>
B_crow     == <<"c","r">>
B_rook     == <<"r","k">>
B_weight   == <<"w","t">>
S_T        == <<"T">>
S_S        == <<"S">>

\* fn default_male() -> bool, fn default_cap() -> u16,
\* fn default_pets() -> Vec<Pet>, fn default_mate() -> Mate
default_male == TRUE
default_cap  == 12
PetT         == <<S_T>>
PetS         == <<S_S>>
default_pets == <<PetT>>
default_mate == <<S_T>>

\* struct Person { #[attr age] age: u16, #[attr male, default] male: bool,
\*                 #[attr nick] nick: String, #[text] name: String }
PersonFields ==
    << Field(B_age,  "attr", Some(B_age),  <<>>, "None", "u16",    None),
       Field(B_male, "attr", Some(B_male), <<>>, "None", "bool",   Some(default_male)),
       Field(B_nick, "attr", Some(B_nick), <<>>, "None", "String", None),
       Field(B_name, "text", None,         <<>>, "None", "String", None) >>

\* struct Staff { #[attr age] age: u16, #[text] name: String }
StaffFields ==
    << Field(B_age,  "attr", Some(B_age), <<>>, "None", "u16",    None),
       Field(B_name, "text", None,        <<>>, "None", "String", None) >>

\* struct Pet { #[attr name] name: String }
PetFields == << Field(B_name, "attr", Some(B_name), <<>>, "None", "String", None) >>

\* struct Owner { #[attr name] name: Option<String>,
\*                #[child pet] pets: Vec<Pet>, #[sfc open] open: bool }
OwnerFields ==
    << Field(B_name, "attr",  Some(B_name), <<>>, "Opt", "String", None),
       Field(B_pet,  "child", Some(B_pet),  <<>>, "Vec", "Pet",    None),
       Field(B_open, "sfc",   Some(B_open), <<>>, "None", "bool",  None) >>

\* struct Cage { #[attr name=pg, map=[dv]] pigeon: u16,
\*               #[attr map=[cr, rk]] crow: Option<String> }
CageFields ==
    << Field(B_pigeon, "attr", Some(B_pigeon), <<B_dove>>,         "None", "u16",    None),
       Field(B_crow,   "attr", None,           <<B_crow, B_rook>>, "Opt",  "String", None) >>

\* struct Team { #[attr id] id: u16, #[attr cap, default] cap: u16,
\*               #[attr nick] nick: Option<String>,
\*               #[child pet, default, vec_size = 10] pets: Vec<Pet>,
\*               #[child mate, default] mate: Mate, #[sfc open] open: bool }
TeamFields ==
    << Field(B_id,   "attr",  Some(B_id),   <<>>, "None", "u16",    None),
       Field(B_cap,  "attr",  Some(B_cap),  <<>>, "None", "u16",    Some(default_cap)),
       Field(B_nick, "attr",  Some(B_nick), <<>>, "Opt",  "String", None),
       [Field(B_pet, "child", Some(B_pet),  <<>>, "Vec",  "Pet",    Some(default_pets))
            EXCEPT !.vec_size = Some(10)],
       Field(B_mate, "child", Some(B_mate), <<>>, "None", "Mate",   Some(default_mate)),
       Field(B_open, "sfc",   Some(B_open), <<>>, "None", "bool",   None) >>

B_parameter == <<"p","a","r","a","m">>
B_root      == <<"r","o","o","t">>
B_wrapper   == <<"w","r","a","p">>
B_foo       == <<"f","o","o">>
B_header    == <<"h","d">>
B_varargs   == <<"v","a">>
B_type      == <<"t","y">>
B_a         == <<"a">>
B_c         == <<"c">>

\* enum ParameterType { #[name va] VarArgs, #[name ty] Type(Mate),
\*                      #[ty = "text"] Text(String) }
ParameterTypeVariants ==
    << EnumVariant("VarArgs", Some(B_varargs), None,           "child"),
       EnumVariant("Type",    Some(B_type),    Some("Mate"),   "child"),
       EnumVariant("Text",    None,            Some("String"), "text") >>

\* struct Parameter { #[untag] ty: ParameterType }
ParameterFields ==
    << Field(B_type, "untagged_enum", None, <<>>, "None", "ParameterType", None) >>

\* struct Root { #[untag] dummy: Vec<ParameterType> }
RootFields ==
    << Field(B_type, "untagged_enum", None, <<>>, "Vec", "ParameterType", None) >>

\* struct Body { #[child mate] mate: Option<Mate> }
BodyFields ==
    << Field(B_mate, "child", Some(B_mate), <<>>, "Opt", "Mate", None) >>

\* struct Wrapper { #[attr hd] header: String, #[untag] body: Body }
WrapperFields ==
    << Field(B_header, "attr",          Some(B_header), <<>>, "None", "String", None),
       Field(B_foo,    "untagged_enum", None,           <<>>, "None", "Body",   None) >>

\* struct Bar { #[child a] a: Mate, #[child c] c: Mate }
BarFields ==
    << Field(B_a, "child", Some(B_a), <<>>, "None", "Mate", None),
       Field(B_c, "child", Some(B_c), <<>>, "None", "Mate", None) >>

\* struct Rab { #[child c] c: Mate, #[child a] a: Mate }
RabFields ==
    << Field(B_c, "child", Some(B_c), <<>>, "None", "Mate", None),
       Field(B_a, "child", Some(B_a), <<>>, "None", "Mate", None) >>

\* struct Foo { #[untagged_struct] bar: Bar }
FooFields ==
    << Field(B_foo, "untagged_struct", None, <<>>, "None", "Bar", None) >>

\* struct FooOption { #[untagged_struct] bar: Option<Bar> }
FooOptionFields ==
    << Field(B_foo, "untagged_struct", None, <<>>, "Opt", "Bar", None) >>

\* struct Oof { #[untagged_struct] rab: Rab }
OofFields ==
    << Field(B_foo, "untagged_struct", None, <<>>, "None", "Rab", None) >>

B_tx == <<"t","x">>

\* enum Choice { #[xmlserde(name = b"open")] Open,
\*               #[xmlserde(name = b"mate")] Mate(Mate),
\*               #[xmlserde(name = b"a")] A(Mate),
\*               #[xmlserde(name = b"tx", ty = "text")] Text(String) }
ChoiceVariants ==
    << EnumVariant("Open", Some(B_open), None,           "child"),
       EnumVariant("Mate", Some(B_mate), Some("Mate"),   "child"),
       EnumVariant("A",    Some(B_a),    Some("Mate"),   "child"),
       EnumVariant("Text", Some(B_tx),   Some("String"), "text") >>

B_mix == <<"m","i","x">>

\* #[xmlserde(root = b"mix")]
\* struct Mix { #[sfc open] open: bool, #[child mate] mate: Option<Mate>,
\*              #[untag] first: Option<Choice>, #[untag] rest: Vec<Choice>,
\*              #[untagged_struct] bar: Option<Bar> }
MixFields ==
    << Field(B_open, "sfc",             Some(B_open), <<>>, "None", "bool",   None),
       Field(B_mate, "child",           Some(B_mate), <<>>, "Opt",  "Mate",   None),
       Field(B_a,    "untagged_enum",   None,         <<>>, "Opt",  "Choice", None),
       Field(B_c,    "untagged_enum",   None,         <<>>, "Vec",  "Choice", None),
       Field(B_foo,  "untagged_struct", None,         <<>>, "Opt",  "Bar",    None) >>

B_nest == <<"n","e","s","t">>

\* struct Nest { #[child foo] bar: Option<Bar>, #[child wt] picks: Vec<Choice> }
NestFields ==
    << Field(B_foo,    "child", Some(B_foo),    <<>>, "Opt", "Bar",    None),
       Field(B_weight, "child", Some(B_weight), <<>>, "Vec", "Choice", None) >>

B_loft == <<"l","o","f","t">>
B_PG   == <<"P","G">>

\* #[xmlserde(root = b"loft", rename_all = "lowercase")]
\* struct Loft { #[attr name=pg, map=[dv]] pigeon: Option<String>,
\*               #[attr name=dv] dove: Option<String>,
\*               #[attr] PG: Option<String> }
LoftFields ==
    << Field(B_pigeon, "attr", Some(B_pigeon), <<B_dove>>, "Opt", "String", None),
       Field(B_dove,   "attr", Some(B_dove),   <<>>,       "Opt", "String", None),
       Field(B_PG,     "attr", None,           <<>>,       "Opt", "String", None) >>

\* the container attributes (#[xmlserde(root = .., deny_unknown_fields,
\* rename_all = ..)]) of each type
Schema(T) ==
    CASE T = "Person"      -> Container(<<B_person>>, FALSE, None, PersonFields)
      [] T = "PersonLower" -> Container(<<B_person>>, FALSE, Some("Lowercase"), PersonFields)
      [] T = "PersonUpper" -> Container(<<B_person>>, FALSE, Some("Uppercase"), PersonFields)
      [] T = "Staff"       -> Container(<<B_person, B_employee>>, FALSE, None, StaffFields)
      [] T = "Pet"         -> Container(<<B_pet>>, FALSE, None, PetFields)
      [] T = "PetDeny"     -> Container(<<B_pet>>, TRUE, None, PetFields)
      [] T = "Mate"        -> Container(<<>>, FALSE, None, PetFields)
      [] T = "Owner"       -> Container(<<B_owner>>, FALSE, None, OwnerFields)
      [] T = "OwnerDeny"   -> Container(<<B_owner>>, TRUE, None, OwnerFields)
      [] T = "Cage"        -> Container(<<B_cage>>, FALSE, None, CageFields)
      [] T = "Team"        -> Container(<<B_team>>, FALSE, None, TeamFields)
      [] T = "ParameterType" -> EnumContainer(<<>>, ParameterTypeVariants)
      [] T = "Parameter"   -> Container(<<B_parameter>>, FALSE, None, ParameterFields)
      [] T = "Root"        -> Container(<<B_root>>, FALSE, None, RootFields)
      [] T = "Body"        -> Container(<<>>, FALSE, None, BodyFields)
      [] T = "Wrapper"     -> Container(<<B_wrapper>>, FALSE, None, WrapperFields)
      [] T = "Bar"         -> Container(<<>>, FALSE, None, BarFields)
      [] T = "Rab"         -> Container(<<>>, FALSE, None, RabFields)
      [] T = "Foo"         -> Container(<<B_foo>>, FALSE, None, FooFields)
      [] T = "FooOption"   -> Container(<<B_foo>>, FALSE, None, FooOptionFields)
      [] T = "Oof"         -> Container(<<B_foo>>, FALSE, None, OofFields)
      [] T = "Choice"      -> EnumContainer(<<>>, ChoiceVariants)
      [] T = "Mix"         -> Container(<<B_mix>>, FALSE, None, MixFields)
      [] T = "Nest"        -> Container(<<B_nest>>, FALSE, None, NestFields)
      [] T = "Loft"        -> Container(<<B_loft>>, FALSE, Some("Lowercase"), LoftFields)

(***************************************************************************)
(* The helper functions the derive generates next to deserialize.          *)
(***************************************************************************)
\* XmlDeserialize::__is_enum
is_enum(T) == Schema(T).is_enum

\* XmlDeserialize::__get_children_tags.  For an enum, the names of its
\* variants of element type child; for a record with a child or an untag
\* field, the names of its children followed by the tags of the types of
\* its untag fields; the empty Vec of the trait otherwise.
RECURSIVE get_children_tags(_)

\* the body of __get_children_tags generated for the container c
children_tags(c) ==
    LET RECURSIVE Names(_)
        Names(i) ==
          IF i > Len(c.enum_variants) THEN <<>>
          ELSE (IF c.enum_variants[i].ele_type = "child"
                THEN <<unwrap(c.enum_variants[i].name)>> ELSE <<>>) \o Names(i + 1)
        RECURSIVE Kids(_)
        Kids(i) ==
          IF i > Len(c.fields) THEN <<>>
          ELSE (IF c.fields[i].ty = "child"
                THEN <<unwrap(get_field_name(c, c.fields[i]))>> ELSE <<>>) \o Kids(i + 1)
        RECURSIVE Untags(_)
        Untags(i) ==
          IF i > Len(c.fields) THEN <<>>
          ELSE (IF c.fields[i].ty = "untagged_enum"
                THEN get_children_tags(c.fields[i].elem) ELSE <<>>) \o Untags(i + 1)
    IN IF c.is_enum THEN Names(1)
       ELSE IF FieldsOf(c, "child") # <<>> \/ FieldsOf(c, "untagged_enum") # <<>>
       THEN Kids(1) \o Untags(1)
       ELSE <<>>

get_children_tags(T) == children_tags(Schema(T))

\* <[&[u8]]>::contains
contains(tags, t) == \E i \in 1..Len(tags) : tags[i] = t

\* the text variant of an enum: its index in enum_variants, or 0
text_variant(c) ==
    IF \E i \in 1..Len(c.enum_variants) : c.enum_variants[i].ele_type = "text"
    THEN CHOOSE i \in 1..Len(c.enum_variants) : c.enum_variants[i].ele_type = "text"
    ELSE 0

\* <[u8] as Ord>::cmp, on ASCII letters: "Less", "Equal" or "Greater"
byte_rank(b) == CHOOSE i \in 1..52 : (UpperChars \o LowerChars)[i] = b

RECURSIVE cmp_bytes(_, _)
cmp_bytes(a, b) ==
    IF a = <<>> /\ b = <<>> THEN "Equal"
    ELSE IF a = <<>> THEN "Less"
    ELSE IF b = <<>> THEN "Greater"
    ELSE IF byte_rank(Head(a)) < byte_rank(Head(b)) THEN "Less"
    ELSE IF byte_rank(Head(a)) > byte_rank(Head(b)) THEN "Greater"
    ELSE cmp_bytes(Tail(a), Tail(b))

\* <[T]>::binary_search of the standard library: Some(index) for Ok(index),
\* None for Err(_).  The slice is probed as it is, sorted or not; on slices
\* of at most two elements every release of the standard library probes
\* the same elements and gives the same answer.
binary_search(slice, x) ==
    LET RECURSIVE Narrow(_, _)
        Narrow(base, size) ==
          IF size > 1
          THEN LET half == size \div 2
                   mid == base + half
               IN Narrow(IF cmp_bytes(slice[mid + 1], x) = "Greater" THEN base ELSE mid,
                         size - half)
          ELSE base
        found == Narrow(0, Len(slice))
    IN IF Len(slice) = 0 THEN None
       ELSE IF cmp_bytes(slice[found + 1], x) = "Equal" THEN Some(found + 1)
       ELSE None

\* str::trim, on the white space of a document
is_whitespace(b) == b \in {" ", "\n", "\t", "\r"}

RECURSIVE trim_start(_)
trim_start(t) ==
    IF t # <<>> /\ is_whitespace(Head(t)) THEN trim_start(Tail(t)) ELSE t

RECURSIVE trim_end(_)
trim_end(t) ==
    IF t # <<>> /\ is_whitespace(t[Len(t)]) THEN trim_end(SubSeq(t, 1, Len(t) - 1)) ELSE t

trim(t) == trim_end(trim_start(t))

(***************************************************************************)
(* The generated XmlDeserialize::deserialize of a record                   *)
(* (src/derives/src/de.rs, get_de_struct_impl_block).  The local variables *)
(* of the generated function are the sequence st, one entry per field in   *)
(* declaration order.  A result is [ok, val, pos]: ok is FALSE when the    *)
(* generated code panics, pos is the position of the reader afterwards.    *)
(***************************************************************************)
DeOk(v, p)  == [ok |-> TRUE,  val |-> v,    pos |-> p]
DePanic(p)  == [ok |-> FALSE, val |-> <<>>, pos |-> p]

\* get_fields_init: the initial value of each local
fields_init(c) ==
    [i \in 1..Len(c.fields) |->
        LET f == c.fields[i]
        IN IF f.ty = "sfc" THEN FALSE
           ELSE IF is_some(f.default) THEN unwrap(f.default)
           ELSE None]

\* get_vec_init: a Vec child with vec_size is assigned a new empty Vec
vec_init(c, st) ==
    [i \in 1..Len(st) |->
        LET f == c.fields[i]
        IN IF f.ty = "child" /\ f.generic = "Vec" /\ is_some(f.vec_size)
           THEN <<>> ELSE st[i]]

\* get_attr_branch: the names an attribute field answers to
attr_tag(c, f) == unwrap(get_field_name(c, f))
attr_mapped_tags(f) ==
    IF is_some(f.name) THEN f.mapped_names
    ELSE IF Len(f.mapped_names) > 1 THEN Tail(f.mapped_names)
    ELSE <<>>

\* the guard of the arm of get_attr_branch, with exact comparison
attr_key_matches_exact(key, tag, mapped_tags) ==
    \/ key = tag
    \/ \E j \in 1..Len(mapped_tags) : key = mapped_tags[j]

\* get_attr_branch: the guard of the arm
\*   #tag | #mapped | _ if key.eq_ignore_ascii_case(#tag) | ...
attr_key_matches(key, tag, mapped_tags) ==
    \/ eq_ignore_ascii_case(key, tag)
    \/ \E j \in 1..Len(mapped_tags) : eq_ignore_ascii_case(key, mapped_tags[j])

\* the attribute loop of the generated deserialize: [ok, st]
RECURSIVE de_attrs(_, _, _)
de_attrs(c, attrs, st) ==
    IF attrs = <<>> THEN [ok |-> TRUE, st |-> st]
    ELSE
      LET a == Head(attrs)
          fs == FieldsOf(c, "attr")
          i == FirstOf(fs, [j \in 1..Len(fs) |->
                              attr_key_matches(a[1], attr_tag(c, c.fields[fs[j]]),
                                               attr_mapped_tags(c.fields[fs[j]]))])
      IN IF Len(a) # 2 THEN de_attrs(c, Tail(attrs), st)
         ELSE IF i = 0
         THEN IF c.deny_unknown THEN [ok |-> FALSE, st |-> st]
              ELSE de_attrs(c, Tail(attrs), st)
         ELSE
           LET f == c.fields[i]
               r == XmlValue_deserialize(f.elem, a[2])
           IN IF ~is_some(r) THEN [ok |-> FALSE, st |-> st]
              ELSE de_attrs(c, Tail(attrs),
                     [st EXCEPT ![i] = IF f.generic = "Opt" \/ is_required(f)
                                       THEN Some(unwrap(r)) ELSE unwrap(r)])

\* children_match_branch: the comparison of a child's tag with a field name
child_tag_matches(tag, field_tag_name) == tag = field_tag_name

\* sfc_match_branch: the guard  __s.name().into_inner() == #tag
sfc_tag_matches(tag, field_tag_name) == tag = field_tag_name

\* children_match_branch: the assignment of a deserialized child
child_assign(f, old, v) ==
    CASE f.generic = "Vec"   -> Append(old, v)
      [] f.generic = "Opt"   -> Some(v)
      [] f.generic = "Boxed" -> Some(v)
      [] f.generic = "None"  -> IF is_some(f.default) THEN v ELSE Some(v)

\* get_result: required locals are unwrapped
get_result(c, st, pos) ==
    IF \E i \in 1..Len(st) : is_required(c.fields[i]) /\ ~is_some(st[i])
    THEN DePanic(pos)
    ELSE DeOk([i \in 1..Len(st) |->
                 IF is_required(c.fields[i]) THEN unwrap(st[i]) ELSE st[i]], pos)

RECURSIVE deserialize(_, _, _, _, _, _)
RECURSIVE de_loop(_, _, _, _, _)
RECURSIVE deserialize_from_unparsed_array(_, _)

(***************************************************************************)
(* The generated XmlDeserialize::deserialize of an enum                    *)
(* (get_de_enum_impl_block).  A value of an enum is <<ident>> for a unit   *)
(* variant and <<ident, payload>> otherwise.                               *)
(***************************************************************************)
\* children_branches!: the indices of the variants that get an arm
enum_arms(c) ==
    LET RECURSIVE Pick(_)
        Pick(i) == IF i > Len(c.enum_variants) THEN <<>>
                   ELSE (IF c.enum_variants[i].ele_type # "text" THEN <<i>> ELSE <<>>)
                        \o Pick(i + 1)
    IN Pick(1)

\* the arm of children_branches! that matches name, or 0
enum_arm(c, name) ==
    FirstOf(enum_arms(c), [j \in 1..Len(enum_arms(c)) |->
                             unwrap(c.enum_variants[enum_arms(c)[j]].name) = name])

\* the body of an arm of children_branches!
enum_payload(v, r) ==
    IF r.ok THEN DeOk(<<v.ident, r.val>>, r.pos) ELSE DePanic(r.pos)

enum_branch(v, evs, pos, attrs, is_empty) ==
    IF is_some(v.ty)
    THEN enum_payload(v, deserialize(unwrap(v.ty), unwrap(v.name), evs, pos, attrs, is_empty))
    ELSE DeOk(<<v.ident>>, pos)

\* the event loop of the enum; result is never assigned, so leaving the
\* loop ends in  result.expect("did not find any tag")
RECURSIVE enum_loop(_, _, _, _)
enum_loop(c, tag, evs, pos) ==
    LET e == read_event_into(evs, pos)
        vi == enum_arm(c, e.name)
    IN IF e.k = "End" /\ e.name = tag THEN DePanic(pos + 1)
       ELSE IF e.k \in {"Start", "Empty"}
       THEN IF vi # 0
            THEN enum_branch(c.enum_variants[vi], evs, pos + 1, e.attrs, e.k = "Empty")
            ELSE enum_loop(c, tag, evs, pos + 1)
       ELSE IF e.k = "Eof" THEN DePanic(pos)
       ELSE IF e.k = "Err" THEN DePanic(pos + 1)
       ELSE enum_loop(c, tag, evs, pos + 1)

\* deserialize of an enum: match tag { #exact_tags, _ => {} }, then the loop
enum_deserialize(c, tag, evs, pos, attrs, is_empty) ==
    IF enum_arm(c, tag) # 0
    THEN enum_branch(c.enum_variants[enum_arm(c, tag)], evs, pos, attrs, is_empty)
    ELSE enum_loop(c, tag, evs, pos)

\* __deserialize_from_text of the type T: None, or Some of the text variant;
\* [ok, val], ok is FALSE when the unwrap of the value panics
text_branch(c, str) ==
    LET v == c.enum_variants[text_variant(c)]
        r == XmlValue_deserialize(unwrap(v.ty), str)
    IN IF ~c.is_enum \/ text_variant(c) = 0 THEN [ok |-> TRUE, val |-> None]
       ELSE IF ~is_some(r) THEN [ok |-> FALSE, val |-> None]
       ELSE [ok |-> TRUE, val |-> Some(<<v.ident, unwrap(r)>>)]

deserialize_from_text(T, str) == text_branch(Schema(T), str)

\* untag_enums_match_branch, untag_text_enum_branches: the assignment
untag_assign(f, old, v) == IF f.generic = "Vec" THEN Append(old, v) ELSE Some(v)

\* untag_text_enum_branches: one  if let Some(t) = ..  per untag field us[k..]
RECURSIVE untag_text_enum(_, _, _, _, _)

\* one  if let Some(t) = ..  of untag_text_enum_branches: t is the result
\* of __deserialize_from_text of the type of the field us[k]
untag_text_each(c, us, k, str, st, t) ==
    IF ~t.ok THEN [ok |-> FALSE, st |-> st]
    ELSE IF is_some(t.val)
    THEN untag_text_enum(c, us, k + 1, str,
            [st EXCEPT ![us[k]] = untag_assign(c.fields[us[k]], st[us[k]], unwrap(t.val))])
    ELSE untag_text_enum(c, us, k + 1, str, st)

untag_text_enum(c, us, k, str, st) ==
    IF k > Len(us) THEN [ok |-> TRUE, st |-> st]
    ELSE untag_text_each(c, us, k, str, st,
                         deserialize_from_text(c.fields[us[k]].elem, str))

\* the arm of the end of input taken as fatal
eof_arm_fatal(st, pos) == [ok |-> FALSE, st |-> st, pos |-> pos]

\* the arm  Ok(Event::Eof) => break  of the loop of a record
eof_arm(st, pos) == [ok |-> TRUE, st |-> st, pos |-> pos]

\* children_match_branch: the arm of the child field ci, r the result of
\* the deserialize of the child
child_arm(c, tag, evs, st, ci, r) ==
    IF ~r.ok THEN [ok |-> FALSE, st |-> st, pos |-> r.pos]
    ELSE de_loop(c, tag, evs, r.pos,
                 [st EXCEPT ![ci] = child_assign(c.fields[ci], st[ci], r.val)])

\* untag_enums_match_branch: the arm of the untagged_enum field ui, r the
\* result of the deserialize of the enum
untag_enum_arm(c, tag, evs, st, ui, r) ==
    IF ~r.ok THEN [ok |-> FALSE, st |-> st, pos |-> r.pos]
    ELSE de_loop(c, tag, evs, r.pos,
                 [st EXCEPT ![ui] = untag_assign(c.fields[ui], st[ui], r.val)])

\* untag_structs_match_branch: the arm of the untagged_struct field usi,
\* r the capture of the element name, tags the children tags of the type
untag_struct_arm(c, tag, evs, st, usi, name, r, tags) ==
    LET idx == binary_search(tags, name)
    IN IF tags = <<>> THEN de_loop(c, tag, evs, r.pos, st)
       ELSE IF ~is_some(idx) THEN [ok |-> FALSE, st |-> st, pos |-> r.pos]
       ELSE de_loop(c, tag, evs, r.pos,
              [st EXCEPT ![usi] = Append(st[usi], <<tags[unwrap(idx)], r.val>>)])

\* child_branches: the arms of Event::Empty and Event::Start in the order
\* children, untagged enums, untagged structs, then the wildcard
child_branches(c, tag, evs, pos, st, e, ci, ui, usi) ==
    IF ci # 0
    THEN child_arm(c, tag, evs, st, ci,
           deserialize(c.fields[ci].elem, e.name, evs, pos + 1, e.attrs, e.k = "Empty"))
    ELSE IF ui # 0
    THEN untag_enum_arm(c, tag, evs, st, ui,
           deserialize(c.fields[ui].elem, e.name, evs, pos + 1, e.attrs, e.k = "Empty"))
    ELSE IF usi # 0
    THEN untag_struct_arm(c, tag, evs, st, usi, e.name,
           Unparsed_deserialize(e.name, evs, pos + 1, e.attrs, e.k = "Empty"),
           get_children_tags(c.fields[usi].elem))
    ELSE de_loop(c, tag, evs, pos + 1, st)

\* the Event::Text arm without the test of the trimmed text
untag_text_arm_untrimmed(c, tag, evs, pos, st, u, t) ==
    IF ~is_some(u) THEN [ok |-> FALSE, st |-> st, pos |-> pos + 1]
    ELSE IF ~t.ok THEN [ok |-> FALSE, st |-> st, pos |-> pos + 1]
    ELSE de_loop(c, tag, evs, pos + 1, t.st)

\* the Event::Text arm of a record with child branches: u is the text
\* unescaped, t the locals after untag_text_enum_branches
untag_text_arm(c, tag, evs, pos, st, u, t) ==
    IF ~is_some(u) THEN [ok |-> FALSE, st |-> st, pos |-> pos + 1]
    ELSE IF trim(unwrap(u)) = <<>> THEN de_loop(c, tag, evs, pos + 1, st)
    ELSE IF ~t.ok THEN [ok |-> FALSE, st |-> st, pos |-> pos + 1]
    ELSE de_loop(c, tag, evs, pos + 1, t.st)

\* the event loop of the generated deserialize; its arms in the order of
\* the generated match: [ok, st, pos].  The local of an untagged_struct
\* field is its array of captures, <<tag, Unparsed>> pairs.
de_loop(c, tag, evs, pos, st) ==
    LET e == read_event_into(evs, pos)
        children == FieldsOf(c, "child")
        texts == FieldsOf(c, "text")
        untagged_enums == FieldsOf(c, "untagged_enum")
        untagged_structs == FieldsOf(c, "untagged_struct")
        has_child_branches ==
            \/ children # <<>>
            \/ untagged_enums # <<>>
            \/ untagged_structs # <<>>
        sfcs == FieldsOf(c, "sfc")
        si == IF e.k = "Empty"
              THEN FirstOf(sfcs, [j \in 1..Len(sfcs) |->
                      sfc_tag_matches(e.name, unwrap(c.fields[sfcs[j]].name))])
              ELSE 0
        ci == FirstOf(children, [j \in 1..Len(children) |->
                child_tag_matches(e.name, unwrap(get_field_name(c, c.fields[children[j]])))])
        ui == FirstOf(untagged_enums, [j \in 1..Len(untagged_enums) |->
                contains(get_children_tags(c.fields[untagged_enums[j]].elem), e.name)])
        usi == FirstOf(untagged_structs, [j \in 1..Len(untagged_structs) |->
                contains(get_children_tags(c.fields[untagged_structs[j]].elem), e.name)])
        panic == [ok |-> FALSE, st |-> st, pos |-> pos + 1]
    IN
    IF e.k = "End" /\ e.name = tag THEN [ok |-> TRUE, st |-> st, pos |-> pos + 1]
    ELSE IF si # 0 THEN de_loop(c, tag, evs, pos + 1, [st EXCEPT ![si] = TRUE])
    ELSE IF has_child_branches /\ e.k \in {"Empty", "Start"}
    THEN child_branches(c, tag, evs, pos, st, e, ci, ui, usi)
    ELSE IF has_child_branches /\ e.k = "Text"
    THEN untag_text_arm(c, tag, evs, pos, st, unescape(e.text),
           IF is_some(unescape(e.text))
           THEN untag_text_enum(c, untagged_enums, 1, unwrap(unescape(e.text)), st)
           ELSE [ok |-> FALSE, st |-> st])
    ELSE IF texts # <<>> /\ e.k = "Text"
    THEN LET f == c.fields[texts[1]]
             u == unescape(e.text)
             r == XmlValue_deserialize(f.elem, unwrap(u))
         IN IF ~is_some(u) THEN panic
            ELSE IF ~is_some(r) THEN panic
            ELSE de_loop(c, tag, evs, pos + 1,
                   [st EXCEPT ![texts[1]] =
                       IF is_required(f) \/ f.generic \in {"Opt", "Boxed"}
                       THEN Some(unwrap(r)) ELSE unwrap(r)])
    ELSE IF e.k \in {"Empty", "Start"}
    THEN IF c.deny_unknown THEN panic ELSE de_loop(c, tag, evs, pos + 1, st)
    ELSE IF e.k = "Eof" THEN eof_arm(st, pos)
    ELSE IF e.k = "Err" THEN [ok |-> TRUE, st |-> st, pos |-> pos + 1]
    ELSE de_loop(c, tag, evs, pos + 1, st)

\* get_untagged_struct_fields_result: after the loop the captures of each
\* untagged_struct field, if any, are replayed into the field: [ok, st]
RECURSIVE result_untagged_structs(_, _, _)

\* the assignment of the field i: r is the result of
\* __deserialize_from_unparsed_array on its captures
replayed(c, st, i, r) ==
    IF ~r.ok THEN [ok |-> FALSE, st |-> st]
    ELSE result_untagged_structs(c, [st EXCEPT ![i] = Some(r.val)], i + 1)

result_untagged_structs(c, st, i) ==
    IF i > Len(st) THEN [ok |-> TRUE, st |-> st]
    ELSE IF c.fields[i].ty # "untagged_struct" THEN result_untagged_structs(c, st, i + 1)
    ELSE IF Len(st[i]) > 0
    THEN replayed(c, st, i, deserialize_from_unparsed_array(c.fields[i].elem, st[i]))
    ELSE result_untagged_structs(c, [st EXCEPT ![i] = None], i + 1)

\* deserialize of a record: the check of the tag against the roots, the
\* attributes, the event loop, the replay of the captures, the result
\* the end of the generated deserialize: u the locals after the replay of
\* the captures of the untagged_struct fields
struct_result(c, pos, u) ==
    IF ~u.ok THEN DePanic(pos) ELSE get_result(c, u.st, pos)

\* the generated deserialize after the event loop: l the outcome of the loop
struct_after_loop(c, l) ==
    IF ~l.ok THEN DePanic(l.pos)
    ELSE struct_result(c, l.pos, result_untagged_structs(c, l.st, 1))

\* the generated deserialize after the attributes: a the outcome of the
\* attribute loop; an empty element has no event loop
struct_after_attrs(c, tag, evs, pos, is_empty, a) ==
    IF ~a.ok THEN DePanic(pos)
    ELSE IF is_empty
    THEN struct_after_loop(c, [ok |-> TRUE, st |-> vec_init(c, a.st), pos |-> pos])
    ELSE struct_after_loop(c, de_loop(c, tag, evs, pos, vec_init(c, a.st)))

struct_deserialize(c, tag, evs, pos, attrs, is_empty) ==
    LET valid_roots == get_root_names(c)
    IN IF /\ c.roots # <<>>
          /\ ~\E i \in 1..Len(valid_roots) : eq_ignore_ascii_case(valid_roots[i], tag)
       THEN DePanic(pos)
       ELSE struct_after_attrs(c, tag, evs, pos, is_empty,
                               de_attrs(c, attrs, fields_init(c)))

\* <T as XmlDeserialize>::deserialize(tag, reader, attrs, is_empty)
deserialize(T, tag, evs, pos, attrs, is_empty) ==
    IF T = "Unparsed"
    THEN LET r == Unparsed_deserialize(tag, evs, pos, attrs, is_empty)
         IN DeOk(r.val, r.pos)
    ELSE IF is_enum(T)
    THEN enum_deserialize(Schema(T), tag, evs, pos, attrs, is_empty)
    ELSE struct_deserialize(Schema(T), tag, evs, pos, attrs, is_empty)

(***************************************************************************)
(* The generated XmlSerialize::serialize of a record                       *)
(* (src/derives/src/ser.rs, get_ser_struct_impl_block): the events written.*)
(***************************************************************************)
\* build_attr_and_push: the attributes of the start tag.  The value is
\* pushed with Attribute::from((&[u8], &[u8])), which stores it as it is.
build_attrs(c, v) ==
    LET RECURSIVE Push(_)
        Push(i) ==
          IF i > Len(c.fields) THEN <<>>
          ELSE LET f == c.fields[i]
                   name == unwrap(get_field_name(c, f))
                   one ==
                     IF f.ty # "attr" THEN <<>>
                     ELSE IF f.generic = "Opt"
                     THEN IF is_some(v[i])
                          THEN << <<name, XmlValue_serialize(f.elem, unwrap(v[i]))>> >>
                          ELSE <<>>
                     ELSE IF is_some(f.default) /\ unwrap(f.default) = v[i] THEN <<>>
                     ELSE << <<name, XmlValue_serialize(f.elem, v[i])>> >>
               IN one \o Push(i + 1)
    IN (IF is_some(c.with_ns) THEN << <<<<"x","m","l","n","s">>, unwrap(c.with_ns)>> >>
        ELSE <<>>) \o Push(1)

\* init_is_empty: has_child_to_write
has_child_to_write(c, v) ==
    \E i \in 1..Len(c.fields) :
        LET f == c.fields[i]
        IN CASE f.ty = "child" ->
                  (CASE f.generic = "Vec" -> Len(v[i]) > 0
                     [] f.generic = "Opt" -> is_some(v[i])
                     [] OTHER -> IF is_some(f.default) THEN v[i] # unwrap(f.default)
                                 ELSE TRUE)
             [] f.ty = "sfc" -> v[i]
             [] f.ty = "text" ->
                  IF f.generic = "Opt" THEN is_some(v[i])
                  ELSE IF ~is_some(f.default) THEN TRUE
                  ELSE v[i] # unwrap(f.default)
             [] OTHER -> FALSE

\* init_is_empty: is_empty
ser_is_empty(c, v) ==
    ~has_child_to_write(c, v) /\ FieldsOf(c, "untagged_enum") = <<>>

\* write_text_or_children, the text: BytesText::new escapes the value
write_text(f, v) ==
    IF f.generic = "Opt"
    THEN IF is_some(v) THEN <<EvText(escape(XmlValue_serialize(f.elem, unwrap(v))))>>
         ELSE <<>>
    ELSE <<EvText(escape(XmlValue_serialize(f.elem, v)))>>

RECURSIVE serialize(_, _, _)
RECURSIVE serialize_vec(_, _, _)

\* <Vec<T> as XmlSerialize>::serialize
serialize_vec(T, vs, tag) ==
    IF vs = <<>> THEN <<>>
    ELSE serialize(T, Head(vs), tag) \o serialize_vec(T, Tail(vs), tag)

\* the variant of the enum c that the value v is of
variant_of(c, v) ==
    c.enum_variants[CHOOSE i \in 1..Len(c.enum_variants) : c.enum_variants[i].ident = v[1]]

\* the arm of a variant, writing the variant's element and no enclosing one
enum_write_bare(tag, inner) == inner

\* the arm of a variant, leaving the enclosing element open
enum_write_unclosed(tag, inner) ==
    IF tag = <<>> THEN inner
    ELSE <<EvStart(tag, <<>>)>> \o inner

\* get_ser_enum_impl_block: the arm of a unit variant and of a variant with
\* a child payload; the payload is written by inner, the events of
\* c.serialize(name, writer)
enum_write(tag, inner) ==
    IF tag = <<>> THEN inner
    ELSE <<EvStart(tag, <<>>)>> \o inner \o <<EvEnd(tag)>>

\* get_ser_enum_impl_block: the arm of the variant x of the value v
enum_serialize(x, v, tag) ==
    IF ~is_some(x.ty) THEN enum_write(tag, <<EvEmpty(unwrap(x.name), <<>>)>>)
    ELSE IF x.ele_type = "text"
    THEN <<EvText(escape(XmlValue_serialize(unwrap(x.ty), v[2])))>>
    ELSE enum_write(tag, serialize(unwrap(x.ty), v[2], unwrap(x.name)))

\* get_ser_struct_impl_block: the events written for a record
struct_serialize(c, v, tag) ==
      LET attrs == build_attrs(c, v)
          texts == FieldsOf(c, "text")
          RECURSIVE Write(_, _)
          \* write_scf, then write_children, then write_untags, each in
          \* declaration order; the untagged_struct fields are not written
          Write(t, i) ==
            IF i > Len(c.fields) THEN <<>>
            ELSE LET f == c.fields[i]
                     name == IF is_some(f.name) THEN unwrap(f.name)
                             ELSE unwrap(get_field_name(c, f))
                     one ==
                       IF f.ty # t THEN <<>>
                       ELSE IF t = "sfc"
                       THEN IF v[i] THEN <<EvEmpty(name, <<>>)>> ELSE <<>>
                       ELSE IF t = "untagged_enum"
                       THEN CASE f.generic = "Vec" -> serialize_vec(f.elem, v[i], <<>>)
                              [] f.generic = "Opt" ->
                                   IF is_some(v[i]) THEN serialize(f.elem, unwrap(v[i]), <<>>)
                                   ELSE <<>>
                              [] OTHER -> serialize(f.elem, v[i], <<>>)
                       ELSE IF f.skip_serializing THEN <<>>
                       ELSE CASE f.generic = "Vec" -> serialize_vec(f.elem, v[i], name)
                              [] f.generic = "Opt" ->
                                   IF is_some(v[i]) THEN serialize(f.elem, unwrap(v[i]), name)
                                   ELSE <<>>
                              [] OTHER -> serialize(f.elem, v[i], name)
                 IN one \o Write(t, i + 1)
          write_text_or_children ==
            IF texts # <<>> THEN write_text(c.fields[texts[1]], v[texts[1]])
            ELSE Write("sfc", 1) \o Write("child", 1) \o Write("untagged_enum", 1)
      IN IF ser_is_empty(c, v) THEN <<EvEmpty(tag, attrs)>>
         ELSE IF tag = <<>> THEN write_text_or_children
         ELSE <<EvStart(tag, attrs)>> \o write_text_or_children \o <<EvEnd(tag)>>

\* <T as XmlSerialize>::serialize(&self, tag, writer): the events written
serialize(T, v, tag) ==
    IF T = "Unparsed" THEN Unparsed_serialize(v, tag)
    ELSE IF is_enum(T) THEN enum_serialize(variant_of(Schema(T), v), v, tag)
    ELSE struct_serialize(Schema(T), v, tag)

(***************************************************************************)
(* The entry points (src/src/lib.rs).                                      *)
(***************************************************************************)
\* xml_serialize: the events written for the first declared root.  It
\* panics (None) when the type declares no root.
xml_serialize(T, v) ==
    LET roots == get_root_names(Schema(T))
    IN IF roots = <<>> THEN None ELSE Some(serialize(T, v, roots[1]))

\* the error strings of the entry points
CannotFind(root) == [msg |-> "Cannot find the element", root |-> root]
ReaderError      == [msg |-> "reader error", root |-> <<>>]
NoRootDeclared   == [msg |-> "#[xmlserde(root = b\"tag\")]", root |-> <<>>]
NoMatchingRoot   == [msg |-> "No matching root found", root |-> <<>>]

\* the value returned by T::deserialize, or its panic
entry_result(r) == IF r.ok THEN Ok(r.val, r.pos) ELSE Panic

\* xml_deserialize_from_reader_with_root
RECURSIVE xml_deserialize_from_reader_with_root(_, _, _, _)
xml_deserialize_from_reader_with_root(T, evs, pos, root) ==
    LET e == read_event_into(evs, pos)
        case == rename_all(Schema(T))
    IN IF /\ e.k \in {"Start", "Empty"}
          /\ Case_transform(case, e.name) = Case_transform(case, root)
       THEN entry_result(deserialize(T, root, evs, pos + 1, e.attrs, e.k = "Empty"))
       ELSE IF e.k = "Eof" THEN ErrRes(CannotFind(root))
       ELSE IF e.k = "Err" THEN ErrRes(ReaderError)
       ELSE xml_deserialize_from_reader_with_root(T, evs, pos + 1, root)

\* the loop over the roots of xml_deserialize_from_reader, keeping the
\* error of the first root that fails
RECURSIVE try_roots_first_err(_, _, _, _, _)
try_roots_first_err(T, evs, roots, i, last_err) ==
    IF i > Len(roots)
    THEN ErrRes(IF is_some(last_err) THEN unwrap(last_err) ELSE NoMatchingRoot)
    ELSE LET r == xml_deserialize_from_reader_with_root(T, evs, 1, roots[i])
         IN IF r.kind = "err"
            THEN try_roots_first_err(T, evs, roots, i + 1,
                    IF is_some(last_err) THEN last_err ELSE Some(r.err))
            ELSE r

\* the loop over the roots of xml_deserialize_from_reader:
\*   Ok(val) => return Ok(val), Err(e) => last_err = Some(e)
RECURSIVE try_roots(_, _, _, _, _)
try_roots(T, evs, roots, i, last_err) ==
    IF i > Len(roots)
    THEN ErrRes(IF is_some(last_err) THEN unwrap(last_err) ELSE NoMatchingRoot)
    ELSE LET r == xml_deserialize_from_reader_with_root(T, evs, 1, roots[i])
         IN IF r.kind = "err"
            THEN try_roots(T, evs, roots, i + 1, Some(r.err))
            ELSE r

\* xml_deserialize_from_reader and xml_deserialize_from_str
xml_deserialize_from_reader(T, evs) ==
    LET roots == get_root_names(Schema(T))
    IN IF roots = <<>> THEN ErrRes(NoRootDeclared)
       ELSE try_roots(T, evs, roots, 1, None)

(***************************************************************************)
(* The bytes between the writer and a reader.  The writer puts an          *)
(* attribute value between double quotes as it was pushed, and writes       *)
(* nothing for an empty text.  A reader of these bytes ends an attribute   *)
(* value at the first double quote; what it makes of the bytes after it is *)
(* left open: it reports an error for the element, or an error item in the *)
(* attribute list, after which the later attributes are kept or lost.      *)
(***************************************************************************)
has_quote(s) == \E i \in 1..Len(s) : s[i] = "\""
until_quote(s) ==
    SubSeq(s, 1, (CHOOSE i \in 1..Len(s) :
                    s[i] = "\"" /\ \A j \in 1..(i - 1) : s[j] # "\"") - 1)

\* the attribute list read back, under the recovery m of the reader
RECURSIVE WireAttrs(_, _)
WireAttrs(attrs, m) ==
    IF attrs = <<>> THEN <<>>
    ELSE LET a == Head(attrs)
         IN IF has_quote(a[2])
            THEN << <<a[1], until_quote(a[2])>>, AttrErr >>
                 \o (IF m = "keep" THEN WireAttrs(Tail(attrs), m) ELSE <<>>)
            ELSE <<a>> \o WireAttrs(Tail(attrs), m)

\* the events read back from the events written, under the recovery m
RECURSIVE WireEvents(_, _)
WireEvents(evs, m) ==
    IF evs = <<>> THEN <<>>
    ELSE LET e == Head(evs)
             broken == \E i \in 1..Len(e.attrs) : has_quote(e.attrs[i][2])
         IN IF e.k = "Text" /\ e.text = <<>> THEN WireEvents(Tail(evs), m)
            ELSE IF e.k \in {"Start", "Empty"} /\ broken
            THEN IF m = "err" THEN <<EvErr>>
                 ELSE <<[e EXCEPT !.attrs = WireAttrs(e.attrs, m)]>>
                      \o WireEvents(Tail(evs), m)
            ELSE <<e>> \o WireEvents(Tail(evs), m)

Wire(evs) == { WireEvents(evs, m) : m \in {"err", "keep", "lose"} }

(***************************************************************************)
(* The replay of the captures of an untagged_struct field.                 *)
(***************************************************************************)
B_tmptag == <<"t","m","p","t","a","g">>

\* Unparsed::deserialize_to::<T>: the capture is written under the tag
\* tmptag and what was written is read as a T with that root.  Unparsed
\* writes its attribute values escaped, so no value holds a double quote
\* and every reader reads the same events.
deserialize_to(T, content) ==
    xml_deserialize_from_reader_with_root(
        T, WireEvents(Unparsed_serialize(content, B_tmptag), "keep"), 1, B_tmptag)

\* get_deserialize_from_unparsed: the name of the arm of a child
unparsed_arm_name(f) == IF is_some(f.name) THEN unwrap(f.name) ELSE f.mapped_names[1]

\* the  for_each  of __deserialize_from_unparsed_array: [ok, st]
RECURSIVE unparsed_array_each(_, _, _, _)

\* the arm of the child ci: r is the result of  content.deserialize_to()
unparsed_arm(c, array, k, st, ci, r) ==
    IF r.kind # "ok" THEN [ok |-> FALSE, st |-> st]
    ELSE unparsed_array_each(c, array, k + 1,
            [st EXCEPT ![ci] = child_assign(c.fields[ci], st[ci], r.val)])

unparsed_array_each(c, array, k, st) ==
    IF k > Len(array) THEN [ok |-> TRUE, st |-> st]
    ELSE LET children == FieldsOf(c, "child")
             ci == FirstOf(children, [j \in 1..Len(children) |->
                      unparsed_arm_name(c.fields[children[j]]) = array[k][1]])
         IN IF ci = 0 THEN unparsed_array_each(c, array, k + 1, st)
            ELSE unparsed_arm(c, array, k, st, ci,
                              deserialize_to(c.fields[ci].elem, array[k][2]))

\* <T as XmlDeserialize>::__deserialize_from_unparsed_array: generated for
\* a record of children only, unreachable!() otherwise
from_unparsed_array(c, array) ==
    IF \/ c.is_enum
       \/ FieldsOf(c, "child") = <<>>
       \/ FieldsOf(c, "attr") # <<>>
       \/ FieldsOf(c, "sfc") # <<>>
       \/ FieldsOf(c, "untagged_enum") # <<>>
    THEN DePanic(0)
    ELSE struct_result(c, 0, unparsed_array_each(c, array, 1, fields_init(c)))

deserialize_from_unparsed_array(T, array) == from_unparsed_array(Schema(T), array)

(***************************************************************************)
(* The capture and emission of an element subtree.                         *)
(***************************************************************************)
InitUnparsed ==
    /\ ty = "Unparsed"
    /\ doc \in Subtrees
    /\ val = <<>>
    /\ out = <<>>
    /\ res = NoRes
    /\ pc = "start"

\* The caller has read doc[1], the element's Start / Empty event, and calls
\* Unparsed::deserialize with the element's name as the tag.
Capture ==
    /\ pc = "start"
    /\ ty = "Unparsed"
    /\ LET r == Unparsed_deserialize(doc[1].name, doc, 2, doc[1].attrs,
                                     doc[1].k = "Empty")
       IN /\ val' = r.val
          /\ res' = Ok(r.val, r.pos)
    /\ pc' = "captured"
    /\ UNCHANGED <<ty, doc, out>>

\* Unparsed::serialize of the capture under the same tag.
Emit ==
    /\ pc = "captured"
    /\ out' = Unparsed_serialize(val, doc[1].name)
    /\ pc' = "emitted"
    /\ UNCHANGED <<ty, doc, val, res>>

NextUnparsed == Capture \/ Emit

SpecUnparsed == InitUnparsed /\ [][NextUnparsed]_vars

ElemName(x)    == x[1].name
ElemAttrs(x)   == x[1].attrs
ElemContent(x) == IF x[1].k = "Empty" THEN <<>> ELSE SubSeq(x, 2, Len(x) - 1)

\* C1: emitting the capture of a well-formed element subtree under the
\* same tag reproduces the subtree: same attributes in the same order, the
\* same content events between the same Start and End.
C1_RoundTripIdentity ==
    pc = "emitted" =>
        /\ out # <<>>
        /\ ElemName(out) = ElemName(doc)
        /\ ElemAttrs(out) = ElemAttrs(doc)
        /\ ElemContent(out) = ElemContent(doc)

(***************************************************************************)
(* Serializing a value and deserializing what was written.                 *)
(***************************************************************************)
S_J     == <<"J">>
StrVals == { S_T, <<"&">>, <<"\"">>, <<" ">>, <<"a","<","b">> }

PersonValues ==
    { <<a, m, n, t>> : a \in {7, 16}, m \in BOOLEAN, n \in StrVals, t \in StrVals }
StaffValues == { <<a, t>> : a \in {5, 30}, t \in {S_T, S_J} }
TeamValues ==
    { <<1, c, n, p, mt, o>> :
        c \in {default_cap, 4}, n \in {None, Some(S_T)},
        p \in {<<>>, <<PetT>>, <<PetS, PetT>>},
        mt \in {default_mate, PetS}, o \in BOOLEAN }

MateValues == { <<n>> : n \in {S_T, S_S} }
BodyValues == { <<m>> : m \in {None} \cup { Some(x) : x \in MateValues } }
WrapperValues == { <<h, b>> : h \in {S_T, S_J}, b \in BodyValues }
OwnerValues ==
    { <<n, p, o>> : n \in {None, Some(S_T)}, p \in {<<>>, <<PetT>>, <<PetS, PetT>>},
                    o \in BOOLEAN }
ParameterTypeValues ==
    { <<"VarArgs">> } \cup { <<"Type", m>> : m \in MateValues }
                      \cup { <<"Text", t>> : t \in {S_T, S_J} }
ParameterValues == { <<x>> : x \in ParameterTypeValues }
RootValues ==
    { <<l>> : l \in UNION { [1..k -> ParameterTypeValues] : k \in 0..MaxKids } }
BarValues == { <<a, c>> : a \in MateValues, c \in MateValues }
FooValues == { <<b>> : b \in BarValues }
FooOptionValues == { <<b>> : b \in {None} \cup { Some(x) : x \in BarValues } }

ChoiceValues ==
    { <<"Open">>, <<"Mate", <<S_T>>>>, <<"A", <<S_S>>>>, <<"Text", S_J>> }
NestValues ==
    { <<b, p>> : b \in {None} \cup { Some(x) : x \in BarValues },
                 p \in UNION { [1..k -> ChoiceValues] : k \in 0..MaxKids } }

ValuesOf(T) ==
    CASE T = "Person" -> PersonValues
      [] T = "Staff"  -> StaffValues
      [] T = "Team"   -> TeamValues
      [] T = "Mate"   -> MateValues
      [] T = "Body"   -> BodyValues
      [] T = "Wrapper" -> WrapperValues
      [] T = "Owner"  -> OwnerValues
      [] T = "ParameterType" -> ParameterTypeValues
      [] T = "Parameter" -> ParameterValues
      [] T = "Root"   -> RootValues
      [] T = "Bar"    -> BarValues
      [] T = "Foo"    -> FooValues
      [] T = "FooOption" -> FooOptionValues
      [] T = "Nest"   -> NestValues

InitRoundTrip ==
    /\ ty \in {"Person", "Staff", "Team"}
    /\ val \in ValuesOf(ty)
    /\ doc = <<>>
    /\ out = <<>>
    /\ res = NoRes
    /\ pc = "start"

\* xml_serialize(val)
Serialize ==
    /\ pc = "start"
    /\ out' = unwrap(xml_serialize(ty, val))
    /\ pc' = "written"
    /\ UNCHANGED <<ty, doc, val, res>>

\* xml_deserialize_from_str of the bytes written
Parse ==
    /\ pc = "written"
    /\ \E d \in Wire(out) :
          /\ doc' = d
          /\ res' = xml_deserialize_from_reader(ty, d)
    /\ pc' = "read"
    /\ UNCHANGED <<ty, val, out>>

NextRoundTrip == Serialize \/ Parse

SpecRoundTrip == InitRoundTrip /\ [][NextRoundTrip]_vars

\* the Start and Empty events of the children of the element whose start
\* tag precedes evs[i]
RECURSIVE ChildStarts(_, _, _)
ChildStarts(evs, i, depth) ==
    IF i > Len(evs) THEN <<>>
    ELSE LET e == evs[i]
         IN CASE e.k = "Start" ->
                   (IF depth = 1 THEN <<e>> ELSE <<>>) \o ChildStarts(evs, i + 1, depth + 1)
              [] e.k = "Empty" ->
                   (IF depth = 1 THEN <<e>> ELSE <<>>) \o ChildStarts(evs, i + 1, depth)
              [] e.k = "End" -> ChildStarts(evs, i + 1, depth - 1)
              [] OTHER -> ChildStarts(evs, i + 1, depth)

RootChildren(x) == ChildStarts(x, 2, 1)
HasAttr(e, key) == \E i \in 1..Len(e.attrs) : e.attrs[i][1] = key
HasChild(x, tag) == \E i \in 1..Len(RootChildren(x)) : RootChildren(x)[i].name = tag

NonDefaultPerson(v) ==
    v[1] # 0 /\ v[2] # default_male /\ v[3] # <<>> /\ v[4] # <<>>

\* C2: a Person (attributes and one text) whose fields all hold non-default
\* values is returned unchanged by deserializing what serializing it wrote.
C2_RoundTrip ==
    (pc = "read" /\ ty = "Person" /\ NonDefaultPerson(val))
        => (res.kind = "ok" /\ res.val = val)

\* C10: in what serializing a Team wrote, the attribute cap and the child
\* mate, which both declare a default provider, are absent exactly when the
\* field equals its default.
C10_DefaultElided ==
    (pc = "written" /\ ty = "Team")
        => /\ HasAttr(out[1], B_cap) <=> (val[2] # default_cap)
           /\ HasChild(out, B_mate) <=> (val[5] # default_mate)

(***************************************************************************)
(* Deserializing a document with xml_deserialize_from_str.                 *)
(***************************************************************************)
\* number of attributes of the root element of an input
MaxAttrs == 2

ElemE(n, a)    == <<EvEmpty(n, a)>>
ElemS(n, a, c) == <<EvStart(n, a)>> \o c \o <<EvEnd(n)>>

capitalize(s) == [i \in 1..Len(s) |-> IF i = 1 THEN to_ascii_uppercase_u8(s[i]) ELSE s[i]]
Casings(s)    == {s, to_uppercase(s), capitalize(s)}

\* the attribute lists of at most n attributes of S with distinct keys
RECURSIVE AttrLists(_, _)
AttrLists(S, n) ==
    IF n = 0 THEN { <<>> }
    ELSE LET P == AttrLists(S, n - 1)
         IN P \cup { Append(z[1], z[2]) :
                       z \in { y \in P \X S :
                                 \A i \in 1..Len(y[1]) : y[1][i][1] # y[2][1] } }

V_7  == <<"7">>
V_1  == <<"1">>
V_4  == <<"4">>
V_5  == <<"5">>
V_30 == <<"3","0">>
T_x  == <<EvText(<<"x">>)>>
T_J  == <<EvText(S_J)>>

\* the element with attributes a and children among S, self-closing or not
Elems(n, A, S) ==
    { ElemE(n, a) : a \in A } \cup { ElemS(n, a, c) : a \in A, c \in Concats(S, MaxKids) }

PetAttrs == AttrLists({ <<B_name, S_T>>, <<B_weight, V_16>> }, MaxAttrs)
PetDocs  == Elems(B_pet, PetAttrs, { ElemE(B_weight, <<>>), ElemS(B_weight, <<>>, <<>>), T_x })

OwnerKids ==
    { ElemE(n, << <<B_name, S_T>> >>) : n \in Casings(B_pet) }
    \cup { ElemS(B_pet, << <<B_name, S_T>> >>, <<>>) }
    \cup { ElemE(n, <<>>) : n \in Casings(B_open) }
    \cup { ElemS(B_open, <<>>, <<>>), ElemE(B_weight, <<>>), ElemS(B_weight, <<>>, <<>>) }
OwnerDocs == Elems(B_owner, PetAttrs, OwnerKids)

CageAttrs ==
    AttrLists({ <<k, v>> : k \in Casings(B_pigeon) \cup Casings(B_dove), v \in {V_16, V_7} }
              \cup { <<k, S_T>> : k \in Casings(B_crow) \cup Casings(B_rook) }, MaxAttrs)
CageDocs == { ElemE(B_cage, a) : a \in CageAttrs } \cup { ElemS(B_cage, a, <<>>) : a \in CageAttrs }

PersonAttrs ==
    { << <<B_age, V_16>>, <<B_nick, S_T>> >>,
      << <<B_age, V_16>>, <<B_male, S_0>>, <<B_nick, S_T>> >>,
      << <<B_nick, S_T>> >> }
PersonDocs ==
    { ElemS(n, a, c) : n \in Casings(B_person) \cup {B_pet}, a \in PersonAttrs,
                       c \in { <<>>, T_x } }

StaffKids ==
    { T_J, ElemE(B_pet, <<>>) }
    \cup { ElemS(n, << <<B_age, V_5>> >>, T_x) : n \in {B_person, B_employee} }
StaffDocs ==
    { ElemS(n, << <<B_age, V_30>> >>, c) :
        n \in {B_person, B_employee, B_pet}, c \in Concats(StaffKids, MaxKids) }
    \cup { <<EvErr>> }

TeamAttrs == AttrLists({ <<B_id, V_1>>, <<B_cap, V_4>>, <<B_nick, S_T>> }, MaxAttrs)
TeamKids ==
    { ElemE(B_pet, << <<B_name, S_S>> >>), ElemE(B_mate, << <<B_name, S_S>> >>),
      ElemE(B_open, <<>>) }
TeamDocs == Elems(B_team, TeamAttrs, TeamKids)

DocsOf(T) ==
    CASE T \in {"Pet", "PetDeny"}     -> PetDocs
      [] T \in {"Owner", "OwnerDeny"} -> OwnerDocs
      [] T = "Cage"                   -> CageDocs
      [] T \in {"Person", "PersonLower", "PersonUpper"} -> PersonDocs
      [] T = "Staff"                  -> StaffDocs
      [] T = "Team"                   -> TeamDocs

InitDe ==
    /\ ty \in {"Pet", "PetDeny", "Owner", "OwnerDeny", "Cage",
               "Person", "PersonLower", "PersonUpper", "Staff", "Team"}
    /\ doc \in DocsOf(ty)
    /\ val = <<>>
    /\ out = <<>>
    /\ res = NoRes
    /\ pc = "start"

\* xml_deserialize_from_str(doc)
Deserialize ==
    /\ pc = "start"
    /\ ty # "Unparsed"
    /\ res' = xml_deserialize_from_reader(ty, doc)
    /\ pc' = "done"
    /\ UNCHANGED <<ty, doc, val, out>>

NextDe == Deserialize

SpecDe == InitDe /\ [][NextDe]_vars

\* the names a field is declared under: its resolved name and its aliases
FieldNames(c, f) ==
    (IF is_some(get_field_name(c, f)) THEN {unwrap(get_field_name(c, f))} ELSE {})
    \cup { f.mapped_names[j] : j \in 1..Len(f.mapped_names) }
\* the name n is a declared name of the field f up to ASCII letter case
Answers(c, f, n) == \E m \in FieldNames(c, f) : eq_ignore_ascii_case(n, m)
\* the input gives the field number i of c: an attribute of the root, or a
\* child element of the root, bears one of its names
Received(c, i, x) ==
    LET f == c.fields[i]
    IN IF f.ty = "attr"
       THEN \E k \in 1..Len(x[1].attrs) : Answers(c, f, x[1].attrs[k][1])
       ELSE \E k \in 1..Len(RootChildren(x)) : Answers(c, f, RootChildren(x)[k].name)
UnknownAttr(c, x) ==
    \E k \in 1..Len(x[1].attrs) :
        ~\E i \in 1..Len(c.fields) :
            c.fields[i].ty = "attr" /\ Answers(c, c.fields[i], x[1].attrs[k][1])
UnknownChild(c, x) ==
    \E k \in 1..Len(RootChildren(x)) :
        ~\E i \in 1..Len(c.fields) :
            c.fields[i].ty \in {"child", "sfc"}
            /\ Answers(c, c.fields[i], RootChildren(x)[k].name)
ScalarNoDefault(f) == f.generic = "None" /\ ~is_some(f.default) /\ f.ty # "sfc"
SameValue(r1, r2) == r1.kind = r2.kind /\ r1.val = r2.val

\* C3: a Pet or an Owner that sets deny_unknown fails fatally on an input
\* with an attribute or a child element that no field declares; without
\* deny_unknown the same input, its required attributes present, yields a
\* value.
C3_DenyUnknown ==
    (/\ pc = "done"
     /\ ty \in {"Pet", "PetDeny", "Owner", "OwnerDeny"}
     /\ (UnknownAttr(Schema(ty), doc) \/ UnknownChild(Schema(ty), doc)))
        => IF Schema(ty).deny_unknown THEN res.kind = "panic"
           ELSE (\A i \in 1..Len(Schema(ty).fields) :
                    ScalarNoDefault(Schema(ty).fields[i]) => Received(Schema(ty), i, doc))
                => res.kind = "ok"

\* the value an Attribute field holds after the raw value was assigned
Assigned(f, raw) ==
    IF f.generic = "Opt" THEN Some(unwrap(XmlValue_deserialize(f.elem, raw)))
    ELSE unwrap(XmlValue_deserialize(f.elem, raw))
LowerKeys(x) ==
    [x EXCEPT ![1].attrs = [k \in 1..Len(@) |-> <<to_lowercase(@[k][1]), @[k][2]>>]]
CiDistinctKeys(x) ==
    \A i, j \in 1..Len(x[1].attrs) :
        i # j => ~eq_ignore_ascii_case(x[1].attrs[i][1], x[1].attrs[j][1])

\* C4: deserializing a Cage, an attribute whose name is the canonical name
\* or an alias of an Attribute field in any letter case is assigned to that
\* field: the value is returned when the required field is so named, each
\* field holds the value of the last attribute bearing one of its names,
\* and the result is the one for the same attributes in the declared case.
C4_AttrCaseInsensitive ==
    (pc = "done" /\ ty = "Cage") =>
        LET c == Schema(ty)
            attrs == doc[1].attrs
        IN /\ (\A i \in 1..Len(c.fields) :
                   ScalarNoDefault(c.fields[i]) => Received(c, i, doc))
              => res.kind = "ok"
           /\ res.kind = "ok" =>
                \A i \in 1..Len(c.fields), k \in 1..Len(attrs) :
                    (/\ Answers(c, c.fields[i], attrs[k][1])
                     /\ \A k2 \in (k + 1)..Len(attrs) : ~Answers(c, c.fields[i], attrs[k2][1]))
                    => res.val[i] = Assigned(c.fields[i], attrs[k][2])
           /\ CiDistinctKeys(doc) =>
                SameValue(res, xml_deserialize_from_reader(ty, LowerKeys(doc)))

\* C4 happens: a Cage whose only attribute is the alias DV in upper case
\* was deserialized and the field pigeon holds its value
C4_Witness ==
    /\ pc = "done" /\ ty = "Cage"
    /\ doc[1].attrs = << <<to_uppercase(B_dove), V_7>> >>
    /\ res.kind = "ok" /\ res.val[1] = 7

\* the declared name of the first Child or SelfClosingMarker field that n
\* names up to letter case, n itself if there is none
DeclaredCase(c, n) ==
    IF \E i \in 1..Len(c.fields) :
          c.fields[i].ty \in {"child", "sfc"} /\ Answers(c, c.fields[i], n)
    THEN unwrap(get_field_name(c, c.fields[
            CHOOSE i \in 1..Len(c.fields) :
               c.fields[i].ty \in {"child", "sfc"} /\ Answers(c, c.fields[i], n)]))
    ELSE n
DeclaredCaseKids(c, x) ==
    [i \in 1..Len(x) |->
        IF i > 1 /\ x[i].k \in {"Start", "Empty", "End"}
        THEN [x[i] EXCEPT !.name = DeclaredCase(c, @)] ELSE x[i]]

\* C5: deserializing an Owner, a child element whose tag is the name of the
\* Child field pet or of the SelfClosingMarker open in another letter case
\* gives the result that the tag in the declared case gives.
C5_ChildCaseInsensitive ==
    (pc = "done" /\ ty \in {"Owner", "OwnerDeny"}) =>
        SameValue(res, xml_deserialize_from_reader(ty, DeclaredCaseKids(Schema(ty), doc)))

\* the document x with its root element renamed r
Reroot(x, r) ==
    [i \in 1..Len(x) |->
        IF i = 1 \/ (i = Len(x) /\ x[i].k = "End")
        THEN [x[i] EXCEPT !.name = r] ELSE x[i]]

\* C6: a document whose root element is named as the declared root of a
\* Person up to letter case is accepted, under no rename policy, Lowercase
\* and Uppercase alike, with the result of the exact-case root name.
C6_RootCaseInsensitive ==
    (/\ pc = "done"
     /\ ty \in {"Person", "PersonLower", "PersonUpper"}
     /\ eq_ignore_ascii_case(doc[1].name, get_root_names(Schema(ty))[1]))
        => /\ res.kind # "err"
           /\ SameValue(res, xml_deserialize_from_reader(ty,
                                Reroot(doc, get_root_names(Schema(ty))[1])))

\* C7: a document whose root element is person or employee, the declared
\* roots of a Staff, deserializes to the same value under either name.
C7_RootIndependent ==
    (/\ pc = "done" /\ ty = "Staff"
     /\ doc[1].k = "Start"
     /\ doc[1].name \in {B_person, B_employee})
        => \A r \in {B_person, B_employee} :
              SameValue(res, xml_deserialize_from_reader(ty, Reroot(doc, r)))

\* C8 as stated: when xml_deserialize_from_reader fails for every declared
\* root, it returns the error of the first declared root.
C8_FirstRootError ==
    (pc = "done" /\ res.kind = "err") =>
        res.err = xml_deserialize_from_reader_with_root(
                      ty, doc, 1, get_root_names(Schema(ty))[1]).err

\* C8: when xml_deserialize_from_reader fails for every declared root, it
\* returns the error of the last declared root.
C8_LastRootError ==
    (pc = "done" /\ res.kind = "err") =>
        LET roots == get_root_names(Schema(ty))
            last == xml_deserialize_from_reader_with_root(ty, doc, 1, roots[Len(roots)])
        IN last.kind = "err" /\ res.err = last.err

\* C8 happens: a document with neither person nor employee was given to a
\* Staff, and the error names employee, the last declared root
C8_Witness ==
    /\ pc = "done" /\ ty = "Staff"
    /\ doc[1].k = "Start" /\ doc[1].name = B_pet
    /\ res.kind = "err" /\ res.err = CannotFind(B_employee)

\* the value of a field that no default provider covers and the input
\* does not give
EmptyOf(f) == IF f.ty = "sfc" THEN FALSE ELSE <<>>

\* C9: deserializing a Team returns a value only if the input gives every
\* Scalar field without default provider, and fails fatally otherwise; a
\* field the input does not give holds its default provider's value when
\* one is declared, else None, the empty list or false.
C9_RequiredAndDefaults ==
    (pc = "done" /\ ty = "Team") =>
        LET c == Schema(ty)
            missing == \E i \in 1..Len(c.fields) :
                          ScalarNoDefault(c.fields[i]) /\ ~Received(c, i, doc)
        IN /\ res.kind = "ok" => ~missing
           /\ missing => res.kind = "panic"
           /\ res.kind = "ok" =>
                \A i \in 1..Len(c.fields) :
                    ~Received(c, i, doc) =>
                        res.val[i] = IF is_some(c.fields[i].default)
                                     THEN unwrap(c.fields[i].default)
                                     ELSE EmptyOf(c.fields[i])

(***************************************************************************)
(* Serializing a value under a given tag: <T as XmlSerialize>::serialize   *)
(* as a parent calls it, with the name of a child or with the empty tag.   *)
(* The variable doc holds the tag.                                         *)
(***************************************************************************)
SerTypes ==
    {"Person", "Mate", "Body", "Wrapper", "Owner", "Team", "ParameterType",
     "Parameter", "Root", "Bar", "Foo", "FooOption", "Nest"}
SerTags == { <<>>, B_root }

InitSer ==
    /\ ty \in SerTypes
    /\ val \in ValuesOf(ty)
    /\ doc \in SerTags
    /\ out = <<>>
    /\ res = NoRes
    /\ pc = "start"

\* val.serialize(tag, writer)
SerializeUnder ==
    /\ pc = "start"
    /\ out' = serialize(ty, val, doc)
    /\ pc' = "written"
    /\ UNCHANGED <<ty, doc, val, res>>

NextSer == SerializeUnder

SpecSer == InitSer /\ [][NextSer]_vars

\* the record types of SerTypes
IsRecord(T) == ~Schema(T).is_enum

\* C11: serializing a record under the empty tag writes no Start, End or
\* Empty event for the record itself, that is no element event whose name
\* is the empty tag, whatever the value, also when its children are absent.
C11_UntaggedNoWrapper ==
    (pc = "written" /\ IsRecord(ty) /\ doc = <<>>) =>
        \A i \in 1..Len(out) :
            out[i].k \in {"Start", "Empty", "End"} => out[i].name # <<>>

\* C12: what serializing a Foo, whose field bar is an untagged_struct, writes
\* under a tag holds the content of bar inside the element of that tag: the
\* children a and c of the nested Bar.
C12_UntaggedStructWritten ==
    (pc = "written" /\ ty = "Foo" /\ doc # <<>>) =>
        /\ out[1].k = "Start" /\ out[1].name = doc
        /\ out[Len(out)] = EvEnd(doc)
        /\ HasChild(out, B_a) /\ HasChild(out, B_c)

\* the fields of a value of the record c that C13 names: some Child field
\* is present (Optional), non-empty (List) or not equal to its default
\* (Scalar), or some SelfClosingMarker field is true
ChildPresent(c, v) ==
    \E i \in 1..Len(c.fields) :
        \/ /\ c.fields[i].ty = "child"
           /\ IF c.fields[i].generic \in {"Opt", "Vec"} THEN v[i] # <<>>
              ELSE ~(is_some(c.fields[i].default) /\ v[i] = unwrap(c.fields[i].default))
        \/ c.fields[i].ty = "sfc" /\ v[i]

\* C13: a record serialized under a non-empty tag is one self-closing
\* element exactly when no Child or SelfClosingMarker field is present, it
\* has no Text content and it declares no untagged field; otherwise it is
\* Start, content, End.
C13_SelfClosingIff ==
    (pc = "written" /\ IsRecord(ty) /\ doc # <<>>) =>
        LET c == Schema(ty)
            empty == /\ ~ChildPresent(c, val)
                     /\ FieldsOf(c, "text") = <<>>
                     /\ FieldsOf(c, "untagged_enum") = <<>>
                     /\ FieldsOf(c, "untagged_struct") = <<>>
        IN IF empty
           THEN Len(out) = 1 /\ out[1].k = "Empty" /\ out[1].name = doc
           ELSE /\ Len(out) >= 2
                /\ out[1].k = "Start" /\ out[1].name = doc
                /\ out[Len(out)] = EvEnd(doc)

\* C13 on the records that declare no untagged_struct field
C13_WithoutUntaggedStruct ==
    (FieldsOf(Schema(ty), "untagged_struct") = <<>>) => C13_SelfClosingIff

\* C14: serializing a ParameterType whose variant is the unit VarArgs or the
\* payload variant Type writes exactly one element named by the variant's
\* tag, self-closing for VarArgs and the serialized Mate for Type; under a
\* non-empty tag that element is enclosed in Start(tag) and End(tag), under
\* the empty tag nothing encloses it.
C14_EnumOneElement ==
    (pc = "written" /\ ty = "ParameterType" /\ val[1] \in {"VarArgs", "Type"}) =>
        LET element == IF val[1] = "VarArgs" THEN <<EvEmpty(B_varargs, <<>>)>>
                       ELSE <<EvEmpty(B_type, << <<B_name, val[2][1]>> >>)>>
        IN out = IF doc = <<>> THEN element
                 ELSE <<EvStart(doc, <<>>)>> \o element \o <<EvEnd(doc)>>

C14_Witness ==
    /\ pc = "written" /\ ty = "ParameterType" /\ val[1] = "Type"
    /\ doc # <<>> /\ Len(out) = 3 /\ out[2].name = B_type

(***************************************************************************)
(* Deserializing a document into a record with an untagged field, and      *)
(* serializing the value again.                                            *)
(***************************************************************************)
UntagKids ==
    { ElemE(B_varargs, <<>>), ElemS(B_varargs, <<>>, <<>>),
      ElemS(B_varargs, <<>>, ElemE(B_type, << <<B_name, S_S>> >>)),
      ElemE(B_type, << <<B_name, S_T>> >>), ElemE(B_type, << <<B_name, S_S>> >>),
      ElemS(B_type, << <<B_name, S_T>> >>, <<>>),
      ElemE(B_weight, <<>>), T_J }
RootDocs == { ElemS(B_root, <<>>, c) : c \in Concats(UntagKids, MaxKids) }
ParameterDocs == { ElemS(B_parameter, <<>>, c) : c \in Concats(UntagKids, MaxKids) }

FooKids ==
    { ElemE(B_a, << <<B_name, S_T>> >>), ElemE(B_c, << <<B_name, S_S>> >>),
      ElemS(B_a, << <<B_name, S_S>> >>, <<>>), ElemE(B_weight, <<>>) }
FooDocs == Elems(B_foo, {<<>>}, FooKids)

UntagDocsOf(T) ==
    CASE T = "Root"      -> RootDocs
      [] T = "Parameter" -> ParameterDocs
      [] T \in {"Foo", "FooOption", "Oof"} -> FooDocs

InitUntag ==
    /\ ty \in {"Root", "Parameter", "Foo", "FooOption", "Oof"}
    /\ doc \in UntagDocsOf(ty)
    /\ val = <<>>
    /\ out = <<>>
    /\ res = NoRes
    /\ pc = "start"

\* xml_serialize of the value that was returned
Reserialize ==
    /\ pc = "done"
    /\ res.kind = "ok"
    /\ out' = unwrap(xml_serialize(ty, res.val))
    /\ pc' = "rewritten"
    /\ UNCHANGED <<ty, doc, val, res>>

NextUntag == Deserialize \/ Reserialize

SpecUntag == InitUntag /\ [][NextUntag]_vars

\* the members of the sequence of start tags kids whose name is in tags
RECURSIVE KidsNamed(_, _)
KidsNamed(kids, tags) ==
    IF kids = <<>> THEN <<>>
    ELSE (IF Head(kids).name \in tags THEN <<Head(kids)>> ELSE <<>>)
         \o KidsNamed(Tail(kids), tags)

\* the entries of a list of ParameterType that came from an element
RECURSIVE ElementEntries(_)
ElementEntries(l) ==
    IF l = <<>> THEN <<>>
    ELSE (IF Head(l)[1] # "Text" THEN <<Head(l)>> ELSE <<>>) \o ElementEntries(Tail(l))

\* the variant that the start tag e of a child selects
EntryOf(e) ==
    IF e.name = B_varargs THEN <<"VarArgs">>
    ELSE <<"Type", <<e.attrs[1][2]>> >>

\* C15: deserializing a Root, whose field is a List of the untagged enum
\* ParameterType, gives one entry per child element of the root whose tag
\* is a variant tag, in document order, each entry the variant its tag
\* selects; serializing the value writes these elements in the same order.
C15_ListInDocumentOrder ==
    (pc \in {"done", "rewritten"} /\ ty = "Root") =>
        LET kids == KidsNamed(RootChildren(doc), {B_varargs, B_type})
            es == ElementEntries(res.val[1])
            back == KidsNamed(RootChildren(out), {B_varargs, B_type})
        IN /\ res.kind = "ok"
           /\ Len(es) = Len(kids)
           /\ \A i \in 1..Len(kids) : es[i] = EntryOf(kids[i])
           /\ pc = "rewritten" =>
                 /\ Len(back) = Len(kids)
                 /\ \A i \in 1..Len(kids) : back[i].name = kids[i].name

\* the unit variant's element holds no element
UnitKidsEmpty(x) ==
    \A i \in 1..(Len(x) - 1) :
        (x[i].k = "Start" /\ x[i].name = B_varargs) => x[i + 1].k = "End"

\* C15 on the documents where the element of a unit variant is empty
C15_UnitElementsEmpty == UnitKidsEmpty(doc) => C15_ListInDocumentOrder

\* C16: after deserializing an Owner its SelfClosingMarker field open is
\* true exactly when the content of the root held a child element, read as
\* an Empty or as a Start event, with the name open.
C16_MarkerIffChild ==
    (pc = "done" /\ ty = "Owner" /\ res.kind = "ok") =>
        (res.val[3] <=> HasChild(doc, B_open))

\* C16, serializing: the self-closing element open is written exactly when
\* the field is true
C16_MarkerWritten ==
    (pc = "written" /\ ty = "Owner" /\ doc # <<>>) =>
        (val[3] <=> \E i \in 1..Len(out) : out[i] = EvEmpty(B_open, <<>>))

(***************************************************************************)
(* The XmlValue of an enum that derives XmlSerdeEnum                       *)
(* (src/derives/src/enumeration.rs).  A variant (EnumVariantInfo) is a     *)
(* record [ident, xml_value, is_other, mapped_values]; a value is <<ident>>*)
(* or, for the variant marked other, <<ident, string>>.                    *)
(***************************************************************************)
EnumVariantInfo(ident, xml_value, is_other, mapped_values) ==
    [ident |-> ident, xml_value |-> xml_value, is_other |-> is_other,
     mapped_values |-> mapped_values]

V_cat     == <<"c","a","t">>
V_dog     == <<"d","o","g">>
V_parrot  == <<"p","a","r","r","o","t">>
V_pigeon  == <<"p","i","g","e","o","n">>
V_Cat     == <<"C","a","t">>
V_Dog     == <<"D","o","g">>
V_Bird    == <<"B","i","r","d">>
V_Other   == <<"O","t","h","e","r">>
V_Unknown == <<"U","n","k","n","o","w","n">>
V_unknown == <<"u","n","k","n","o","w","n">>

\* enum Status { #[rename = "cat"] Cat, #[rename = "dog"] Dog,
\*               #[map = ["parrot", "pigeon"]] Bird, #[other] Other(String),
\*               Unknown }
\* xml_value is the rename when one is given, the identifier otherwise
StatusVariants ==
    << EnumVariantInfo("Cat",     V_cat,     FALSE, <<>>),
       EnumVariantInfo("Dog",     V_dog,     FALSE, <<>>),
       EnumVariantInfo("Bird",    V_Bird,    FALSE, <<V_parrot, V_pigeon>>),
       EnumVariantInfo("Other",   V_Other,   TRUE,  <<>>),
       EnumVariantInfo("Unknown", V_Unknown, FALSE, <<>>) >>

\* a serialize whose arm of the variant marked other writes the name of the
\* variant
XmlSerdeEnum_serialize_named(variants, v) ==
    LET x == variants[CHOOSE i \in 1..Len(variants) : variants[i].ident = v[1]]
    IN IF x.mapped_values # <<>> THEN x.mapped_values[1] ELSE x.xml_value

\* the generated XmlValue::serialize: the arm of the variant of v
XmlSerdeEnum_serialize(variants, v) ==
    LET x == variants[CHOOSE i \in 1..Len(variants) : variants[i].ident = v[1]]
    IN IF x.is_other THEN v[2]
       ELSE IF x.mapped_values # <<>> THEN x.mapped_values[1]
       ELSE x.xml_value

\* the generated XmlValue::deserialize: the arms xml_value and mapped values
\* of each variant in declaration order, then the arm of the variant marked
\* other or the panic; Some(value), or None for the panic
RECURSIVE XmlSerdeEnum_arms(_, _, _)
XmlSerdeEnum_arms(variants, i, str) ==
    IF i > Len(variants) THEN None
    ELSE LET x == variants[i]
         IN IF /\ ~x.is_other
               /\ \/ str = x.xml_value
                  \/ \E j \in 1..Len(x.mapped_values) : str = x.mapped_values[j]
            THEN Some(<<x.ident>>)
            ELSE XmlSerdeEnum_arms(variants, i + 1, str)

XmlSerdeEnum_deserialize(variants, str) ==
    LET r == XmlSerdeEnum_arms(variants, 1, str)
    IN IF is_some(r) THEN r
       ELSE IF \E i \in 1..Len(variants) : variants[i].is_other
       THEN Some(<<(CHOOSE x \in { variants[i] : i \in 1..Len(variants) } : x.is_other).ident,
                   str>>)
       ELSE None

StatusStrings ==
    { V_cat, V_dog, V_parrot, V_pigeon, V_Cat, V_Dog, V_Bird, V_Other, V_Unknown,
      V_unknown, <<>> }
StatusValues ==
    { <<"Cat">>, <<"Dog">>, <<"Bird">>, <<"Unknown">> }
    \cup { <<"Other", t>> : t \in {V_unknown, V_parrot, <<>>} }

\* The variable val holds a Status, doc a string; out is what serialize
\* returned for val, res what deserialize returned for doc.
InitStatus ==
    /\ ty = "Status"
    /\ val \in StatusValues
    /\ doc \in StatusStrings
    /\ out = <<>>
    /\ res = NoRes
    /\ pc = "start"

\* val.serialize()
StatusSerialize ==
    /\ pc \in {"start", "parsed"}
    /\ out' = XmlSerdeEnum_serialize(StatusVariants, val)
    /\ pc' = IF pc = "start" THEN "shown" ELSE "both"
    /\ UNCHANGED <<ty, doc, val, res>>

\* Status::deserialize(doc)
StatusDeserialize ==
    /\ pc \in {"start", "shown"}
    /\ LET r == XmlSerdeEnum_deserialize(StatusVariants, doc)
       IN res' = IF is_some(r) THEN Ok(unwrap(r), 0) ELSE Panic
    /\ pc' = IF pc = "start" THEN "parsed" ELSE "both"
    /\ UNCHANGED <<ty, doc, val, out>>

NextStatus == StatusSerialize \/ StatusDeserialize

SpecStatus == InitStatus /\ [][NextStatus]_vars

\* C17: for the variant Bird, declared with map = ["parrot", "pigeon"] and
\* no rename, serialize returns the identifier "Bird", and deserialize maps
\* "parrot" and "pigeon" to Bird.
C17_MapVariant ==
    /\ (pc \in {"shown", "both"} /\ val = <<"Bird">>) => out = V_Bird
    /\ (pc \in {"parsed", "both"} /\ doc \in {V_parrot, V_pigeon}) =>
          (res.kind = "ok" /\ res.val = <<"Bird">>)

\* C17, the deserializing half only
C17_MappedValuesRead ==
    (pc \in {"parsed", "both"} /\ doc \in {V_parrot, V_pigeon}) =>
        (res.kind = "ok" /\ res.val = <<"Bird">>)

(***************************************************************************)
(* Deserializing from a reader that fails or ends early: the document is   *)
(* cut after some of its events, and the reader then reports an error or   *)
(* the end of the input.                                                   *)
(***************************************************************************)
FaultTypes == {"Staff", "Team", "Root", "Foo"}

InitFault ==
    /\ ty \in FaultTypes
    /\ doc \in (IF ty \in {"Root", "Foo"} THEN UntagDocsOf(ty) ELSE DocsOf(ty))
    /\ val = <<>>
    /\ out = <<>>
    /\ res = NoRes
    /\ pc = "whole"

\* the input ends after n events
Truncate ==
    /\ pc = "whole"
    /\ \E n \in 0..(Len(doc) - 1) : doc' = SubSeq(doc, 1, n)
    /\ pc' = "start"
    /\ UNCHANGED <<ty, val, out, res>>

\* the reader reports an error after n events
Fail ==
    /\ pc = "whole"
    /\ \E n \in 0..(Len(doc) - 1) : doc' = Append(SubSeq(doc, 1, n), EvErr)
    /\ pc' = "start"
    /\ UNCHANGED <<ty, val, out, res>>

NextFault == Truncate \/ Fail \/ Deserialize

SpecFault == InitFault /\ [][NextFault]_vars

\* the reader of doc reports an error
Faulty(x) == \E i \in 1..Len(x) : x[i].k = "Err"

\* C18: when the reader reports an error at any point of the document, the
\* call fails and returns no value.
C18_ReaderErrorFatal ==
    (pc = "done" /\ Faulty(doc)) => res.kind # "ok"

\* C18 for an error met while the root element is looked for
C18_ErrorBeforeRoot ==
    (pc = "done" /\ doc # <<>> /\ doc[1].k = "Err") => res.kind = "err"

\* the names of the elements of evs that are open at its end, innermost
\* first
RECURSIVE OpenNames(_, _, _)
OpenNames(evs, i, stack) ==
    IF i > Len(evs) THEN stack
    ELSE CASE evs[i].k = "Start" -> OpenNames(evs, i + 1, <<evs[i].name>> \o stack)
           [] evs[i].k = "End"   -> OpenNames(evs, i + 1, Tail(stack))
           [] OTHER              -> OpenNames(evs, i + 1, stack)

\* evs followed by the closing tags of its open elements
Closed(evs) ==
    LET open == OpenNames(evs, 1, <<>>)
    IN evs \o [i \in 1..Len(open) |-> EvEnd(open[i])]

\* C19: when the input ends before the closing tag of a record, the end of
\* the input is taken for the end of the record: the call returns what it
\* returns for the same events followed by the missing closing tags, a
\* value when the required fields were given.
C19_EofEndsRecord ==
    (pc = "done" /\ ~Faulty(doc)) =>
        SameValue(res, xml_deserialize_from_reader(ty, Closed(doc)))

C19_Witness ==
    /\ pc = "done" /\ ~Faulty(doc) /\ ty = "Team"
    /\ Len(doc) >= 2 /\ OpenNames(doc, 1, <<>>) # <<>>
    /\ res.kind = "ok" /\ res.val[4] = <<PetS>>

\* the Mate that the last child element of x named tag gives
LastMate(x, tag) ==
    LET kids == KidsNamed(RootChildren(x), {tag})
    IN <<kids[Len(kids)].attrs[1][2]>>

\* the position of the child named tag in the nested record of type T
ChildIndex(T, tag) ==
    CHOOSE i \in 1..Len(Schema(T).fields) : Schema(T).fields[i].name = Some(tag)

\* C20: deserializing a Foo, FooOption or Oof, whose field is an
\* untagged_struct of children a and c declared in either order, replays
\* every child element a and c of the root into the nested record's child
\* of that tag; when the root has neither, the field is None if it is
\* Optional and the call fails fatally otherwise.
C20_UntaggedStructReplay ==
    (pc = "done" /\ ty \in {"Foo", "FooOption", "Oof"}) =>
        LET f == Schema(ty).fields[1]
            has_a == HasChild(doc, B_a)
            has_c == HasChild(doc, B_c)
            nested == IF f.generic = "Opt" THEN unwrap(res.val[1]) ELSE res.val[1]
        IN /\ (~has_a /\ ~has_c) =>
                IF f.generic = "Opt" THEN res.kind = "ok" /\ res.val = <<None>>
                ELSE res.kind = "panic"
           /\ (has_a /\ has_c) =>
                /\ res.kind = "ok"
                /\ nested[ChildIndex(f.elem, B_a)] = LastMate(doc, B_a)
                /\ nested[ChildIndex(f.elem, B_c)] = LastMate(doc, B_c)

\* C20 on the nested record whose children are declared in the order of
\* their tags
C20_SortedDeclaration ==
    (ty \in {"Foo", "FooOption"}) => C20_UntaggedStructReplay

(***************************************************************************)
(* Attributes that more than one field answers to: SpecAttr reads an       *)
(* element of a record whose attribute fields share names.                 *)
(***************************************************************************)
LoftAttrs ==
    AttrLists({ <<k, v>> : k \in {B_dove, B_pigeon, B_PG, to_uppercase(B_dove), B_crow},
                           v \in {S_T, S_S} }, MaxAttrs)
LoftDocs == { ElemE(B_loft, a) : a \in LoftAttrs }

InitAttr ==
    /\ ty = "Loft"
    /\ doc \in LoftDocs
    /\ val = <<>>
    /\ out = <<>>
    /\ res = NoRes
    /\ pc = "start"

NextAttr == Deserialize

SpecAttr == InitAttr /\ [][NextAttr]_vars

\* the least member of a non-empty set of indices
MinOf(S) == CHOOSE i \in S : \A j \in S : i <= j

\* the attribute fields of c that the key k matches by their canonical
\* name, by an alias, by their policy-derived name
ByCanonical(c, k) ==
    { i \in 1..Len(c.fields) :
        /\ c.fields[i].ty = "attr" /\ is_some(c.fields[i].name)
        /\ eq_ignore_ascii_case(k, unwrap(c.fields[i].name)) }
ByAlias(c, k) ==
    { i \in 1..Len(c.fields) :
        /\ c.fields[i].ty = "attr"
        /\ \E j \in 1..Len(c.fields[i].mapped_names) :
              eq_ignore_ascii_case(k, c.fields[i].mapped_names[j]) }
ByPolicy(c, k) ==
    { i \in 1..Len(c.fields) :
        /\ c.fields[i].ty = "attr" /\ ~is_some(c.fields[i].name)
        /\ c.fields[i].mapped_names = <<>> /\ is_some(c.rename_all)
        /\ eq_ignore_ascii_case(k, Case_transform(unwrap(c.rename_all), c.fields[i].ident)) }

\* the field the tie-break names for the key k, or 0
TieBreak(c, k) ==
    IF ByCanonical(c, k) # {} THEN MinOf(ByCanonical(c, k))
    ELSE IF ByAlias(c, k) # {} THEN MinOf(ByAlias(c, k))
    ELSE IF ByPolicy(c, k) # {} THEN MinOf(ByPolicy(c, k))
    ELSE 0

\* the first field in declaration order that the key k matches at all, or 0
FirstDeclared(c, k) ==
    IF ByCanonical(c, k) \cup ByAlias(c, k) \cup ByPolicy(c, k) # {}
    THEN MinOf(ByCanonical(c, k) \cup ByAlias(c, k) \cup ByPolicy(c, k))
    ELSE 0

\* the element read has one attribute and the field i alone holds its value
OnlyFieldSet(i) ==
    /\ res.kind = "ok"
    /\ \A j \in 1..Len(res.val) :
          res.val[j] = IF j = i THEN Some(doc[1].attrs[1][2]) ELSE None

\* C21: an attribute that several attribute fields answer to is received
\* by exactly one of them: the field matching by its canonical name, else
\* the field matching by an alias, else the field matching by its
\* policy-derived name.
C21_AttrTieBreak ==
    (pc = "done" /\ ty = "Loft" /\ Len(doc[1].attrs) = 1
     /\ TieBreak(Schema(ty), doc[1].attrs[1][1]) # 0)
        => OnlyFieldSet(TieBreak(Schema(ty), doc[1].attrs[1][1]))

\* the attribute is received by the first field in declaration order that
\* answers to it, by whichever of its names
C21_FirstDeclaredField ==
    (pc = "done" /\ ty = "Loft" /\ Len(doc[1].attrs) = 1
     /\ FirstDeclared(Schema(ty), doc[1].attrs[1][1]) # 0)
        => OnlyFieldSet(FirstDeclared(Schema(ty), doc[1].attrs[1][1]))

(***************************************************************************)
(* The deserialize of the type of a field entered with a tag: SpecEnum     *)
(* calls it, for an enum, a record and an opaque capture, on the content   *)
(* of an element named val.tag, followed by the element's end; an empty    *)
(* element has no content of its own.                                      *)
(***************************************************************************)
EnumTags ==
    UNION { Casings(n) : n \in {B_open, B_mate, B_a} } \cup {B_tx, B_weight}
EnumKids ==
    { ElemE(B_mate, << <<B_name, S_S>> >>), ElemE(B_open, <<>>),
      ElemE(B_a, << <<B_name, S_T>> >>), T_x }

InitEnum ==
    /\ ty \in {"Choice", "Mate", "Unparsed"}
    /\ val \in [tag : EnumTags, attrs : { <<>>, << <<B_name, S_T>> >> },
                is_empty : BOOLEAN]
    /\ doc \in IF val.is_empty THEN { <<>> }
               ELSE { c \o <<EvEnd(val.tag)>> : c \in Concats(EnumKids, MaxKids) }
    /\ out = <<>>
    /\ res = NoRes
    /\ pc = "start"

\* <T as XmlDeserialize>::deserialize(tag, reader, attrs, is_empty)
EnumDeserialize ==
    /\ pc = "start"
    /\ res' = entry_result(deserialize(ty, val.tag, doc, 1, val.attrs, val.is_empty))
    /\ pc' = "done"
    /\ UNCHANGED <<ty, doc, val, out>>

NextEnum == EnumDeserialize

SpecEnum == InitEnum /\ [][NextEnum]_vars

\* the first variant with an arm whose discriminator equals t up to ASCII
\* letter case, or 0
SelectedCi(c, t) ==
    FirstOf(enum_arms(c), [j \in 1..Len(enum_arms(c)) |->
              eq_ignore_ascii_case(unwrap(c.enum_variants[enum_arms(c)[j]].name), t)])

\* the value of the variant v entered with the tag t
VariantWith(v, t) ==
    IF is_some(v.ty)
    THEN entry_result(enum_payload(v,
            deserialize(unwrap(v.ty), t, doc, 1, val.attrs, val.is_empty)))
    ELSE Ok(<<v.ident>>, 1)

\* C22: the deserialize of an enum entered with the tag t returns the first
\* variant in declaration order whose discriminator equals t up to ASCII
\* letter case, its payload deserialized with t as the tag; the text
\* variant is never selected by the tag.
C22_EnumTagSelection ==
    (pc = "done" /\ ty = "Choice")
        => /\ SelectedCi(Schema(ty), val.tag) # 0
                => res = VariantWith(Schema(ty).enum_variants[
                                        SelectedCi(Schema(ty), val.tag)], val.tag)
           /\ (res.kind = "ok" /\ val.tag = B_tx) => res.val[1] # "Text"

\* C22 for the tags that equal a discriminator byte for byte
C22_ExactTag ==
    (ty = "Choice" /\ \E i \in 1..Len(Schema(ty).enum_variants) :
        Schema(ty).enum_variants[i].name = Some(val.tag)) => C22_EnumTagSelection

(***************************************************************************)
(* Text among the children of a record: SpecText reads records with an     *)
(* untagged enum field (a list, a scalar) and a record with a text field.  *)
(***************************************************************************)
TextItems == { <<" ">>, <<"\n">>, S_J, <<" ", "J">> }
TextKids ==
    { ElemE(B_varargs, <<>>), ElemE(B_type, << <<B_name, S_S>> >>) }
        \cup { <<EvText(t)>> : t \in TextItems }

TextDocsOf(T) ==
    CASE T = "Root"      -> { ElemS(B_root, <<>>, c) : c \in Concats(TextKids, MaxKids) }
      [] T = "Parameter" -> { ElemS(B_parameter, <<>>, c) : c \in Concats(TextKids, MaxKids) }
      [] T = "Staff"     -> { ElemS(B_person, << <<B_age, V_7>> >>, <<EvText(t)>>) :
                                t \in TextItems }

InitText ==
    /\ ty \in {"Root", "Parameter", "Staff"}
    /\ doc \in TextDocsOf(ty)
    /\ val = <<>>
    /\ out = <<>>
    /\ res = NoRes
    /\ pc = "start"

NextText == Deserialize

SpecText == InitText /\ [][NextText]_vars

\* the entries that the children evs of a record give its untagged enum
\* field: one per element, one per text that is not whitespace only
RECURSIVE TextEntries(_)
TextEntries(evs) ==
    IF evs = <<>> THEN <<>>
    ELSE LET e == Head(evs)
         IN (CASE e.k = "Empty" /\ e.name = B_varargs -> << <<"VarArgs">> >>
               [] e.k = "Empty" /\ e.name = B_type ->
                    << <<"Type", <<e.attrs[1][2]>> >> >>
               [] e.k = "Text" /\ trim(unwrap(unescape(e.text))) # <<>> ->
                    << <<"Text", unwrap(unescape(e.text))>> >>
               [] OTHER -> <<>>)
            \o TextEntries(Tail(evs))

\* C23: in a record without a text field a text constructs the text variant
\* of the untagged enum field (appended to a list, set on a scalar) exactly
\* when it is not whitespace only, whitespace-only text adds and changes no
\* entry, and the text field of a record receives its text untrimmed.
C23_TextVariantUnlessBlank ==
    (pc = "done")
        => LET es == TextEntries(ElemContent(doc))
           IN CASE ty = "Root" -> res.kind = "ok" /\ res.val = <<es>>
                [] ty = "Parameter" ->
                     IF es = <<>> THEN res.kind = "panic"
                     ELSE res.kind = "ok" /\ res.val = <<es[Len(es)]>>
                [] ty = "Staff" ->
                     res.kind = "ok" /\ res.val[2] = unwrap(unescape(doc[2].text))
                [] OTHER -> TRUE

\* a list of one entry was read from a whitespace-only text and one element
C23_Witness ==
    /\ pc = "done" /\ ty = "Root" /\ res.kind = "ok"
    /\ \E i \in 1..Len(doc) : doc[i].k = "Text" /\ trim(doc[i].text) = <<>>
    /\ Len(res.val[1]) = 1

\* C25: the deserialize of the type of a field, entered after the Start
\* event of a child, consumes the events up to and including the End event
\* of that child, whether the type is a record, an enum under a wrapper
\* tag, a unit variant or an opaque capture.
C25_ConsumesToOwnEnd ==
    (pc = "done" /\ ~val.is_empty /\ res.kind = "ok") => res.pos = Len(doc) + 1

\* C25 for a record and an opaque capture
C25_RecordAndCapture ==
    (ty \in {"Mate", "Unparsed"}) => C25_ConsumesToOwnEnd

(***************************************************************************)
(* The event loop of a record on its own: SpecLoop runs it on the children *)
(* of an element named val, up to the end of that element.  Its outcome    *)
(* res is [ok, st, pos], st the locals of the generated function.          *)
(***************************************************************************)
LoopTag(T) == Schema(T).roots[1]

LoopKids(T) ==
    { ElemE(n, << <<B_name, S_S>> >>) : n \in {B_open, B_mate, B_a, B_c, B_pet, B_weight} }
    \cup { ElemS(n, << <<B_name, S_S>> >>, <<>>) :
             n \in {B_open, B_mate, B_a, B_c, B_pet, B_weight} }
    \cup { ElemS(B_weight, <<>>, c) :
             c \in { ElemE(B_mate, << <<B_name, S_T>> >>), ElemE(B_pet, << <<B_name, S_T>> >>),
                     T_x, ElemS(LoopTag(T), <<>>, <<>>) } }
    \cup { ElemS(B_open, <<>>, ElemE(B_c, << <<B_name, S_T>> >>)), T_J }

InitLoop ==
    /\ ty \in {"Mix", "Owner", "Staff"}
    /\ val = LoopTag(ty)
    /\ doc \in { c \o <<EvEnd(val)>> : c \in Concats(LoopKids(ty), MaxKids) }
    /\ out = <<>>
    /\ res = NoRes
    /\ pc = "start"

\* the loop of the generated deserialize, entered after the attributes
Loop ==
    /\ pc = "start"
    /\ res' = de_loop(Schema(ty), val, doc, 1,
                      vec_init(Schema(ty), fields_init(Schema(ty))))
    /\ pc' = "done"
    /\ UNCHANGED <<ty, doc, val, out>>

NextLoop == Loop

SpecLoop == InitLoop /\ [][NextLoop]_vars

\* the first field of c, among those of the kinds tys, that the predicate
\* hit names, or 0
FirstField(c, hit) ==
    IF \E i \in 1..Len(c.fields) : hit[i]
    THEN MinOf({ i \in 1..Len(c.fields) : hit[i] })
    ELSE 0

\* the field the priority of the dispatch names for the child tag n, or 0
ByName(c, n) ==
    FirstField(c, [i \in 1..Len(c.fields) |->
        c.fields[i].ty \in {"sfc", "child"} /\ get_field_name(c, c.fields[i]) = Some(n)])
ByTags(c, t, n) ==
    FirstField(c, [i \in 1..Len(c.fields) |->
        c.fields[i].ty = t /\ contains(get_children_tags(c.fields[i].elem), n)])
Priority(c, n) ==
    IF ByName(c, n) # 0 THEN ByName(c, n)
    ELSE IF ByTags(c, "untagged_enum", n) # 0 THEN ByTags(c, "untagged_enum", n)
    ELSE ByTags(c, "untagged_struct", n)

\* the children read are one element without content
OneFlatKid ==
    \/ Len(doc) = 2 /\ doc[1].k = "Empty"
    \/ Len(doc) = 3 /\ doc[1].k = "Start" /\ doc[2].k = "End"

\* the field i holds something else than before the loop
Changed(i) == res.st[i] # vec_init(Schema(ty), fields_init(Schema(ty)))[i]

\* C24: a child element is dispatched to at most one field, the one the
\* priority names: a self-closing marker or child field of that name, else
\* the first untagged enum field whose children tags hold the tag, else the
\* first untagged struct field whose children tags hold it, else none.
C24_DispatchPriority ==
    (pc = "done" /\ OneFlatKid)
        => /\ res.ok
           /\ \A i \in 1..Len(res.st) :
                 Changed(i) <=> i = Priority(Schema(ty), doc[1].name)

\* C24 for every child but the Start event of a self-closing marker's tag
C24_ExceptMarkerStart ==
    ~(/\ doc[1].k = "Start"
      /\ \E i \in 1..Len(Schema(ty).fields) :
            Schema(ty).fields[i].ty = "sfc" /\ Schema(ty).fields[i].name = Some(doc[1].name))
        => C24_DispatchPriority

\* the position in evs of the End event that closes the element opened just
\* before position i, d elements being open inside it, or 0
RECURSIVE CloseOf(_, _, _)
CloseOf(evs, i, d) ==
    IF i > Len(evs) THEN 0
    ELSE IF evs[i].k = "Start" THEN CloseOf(evs, i + 1, d + 1)
    ELSE IF evs[i].k = "End"
         THEN IF d = 0 THEN i ELSE CloseOf(evs, i + 1, d - 1)
    ELSE CloseOf(evs, i + 1, d)

\* the children read are one element no field answers to
OneUnknownKid ==
    /\ doc[1].k \in {"Start", "Empty"}
    /\ Priority(Schema(ty), doc[1].name) = 0
    /\ \/ doc[1].k = "Empty" /\ Len(doc) = 2
       \/ doc[1].k = "Start" /\ CloseOf(doc, 2, 0) = Len(doc) - 1

\* C26: an unknown child is skipped with its subtree: the loop ends at the
\* End event of the record, after the subtree, and no field has changed.
C26_UnknownSubtreeSkipped ==
    (pc = "done" /\ OneUnknownKid)
        => /\ res.ok
           /\ res.pos = Len(doc) + 1
           /\ \A i \in 1..Len(res.st) : ~Changed(i)

\* C26 for an unknown child without content
C26_UnknownWithoutContent ==
    OneFlatKid => C26_UnknownSubtreeSkipped

(***************************************************************************)
(* Documents with events after the root element: SpecTail gives the entry  *)
(* point a Person document followed by a tail; val is the root element     *)
(* alone.                                                                  *)
(***************************************************************************)
Tails == { <<>>, T_J, <<EvText(<<" ">>)>>, ElemE(B_pet, <<>>) }

InitTail ==
    /\ ty \in {"Person", "PersonLower", "PersonUpper"}
    /\ val \in PersonDocs
    /\ doc \in { val \o t : t \in Tails }
    /\ out = <<>>
    /\ res = NoRes
    /\ pc = "start"

NextTail == Deserialize

SpecTail == InitTail /\ [][NextTail]_vars

\* C27: the value returned depends only on the events from the Start of
\* the matched root element to its End, whatever the letter case of the
\* root tag in the document: the events after that End change no field.
C27_TailIgnored ==
    (pc = "done") => SameValue(res, xml_deserialize_from_reader(ty, val))

\* C27 for a document whose root tag is the declared root byte for byte
C27_ExactRootTail ==
    (doc[1].name = get_root_names(Schema(ty))[1]) => C27_TailIgnored

\* the positions in evs of the elements named as a declared root of T
RootElements(T, evs) ==
    { i \in 1..Len(evs) :
        /\ evs[i].k \in {"Start", "Empty"}
        /\ \E j \in 1..Len(get_root_names(Schema(T))) :
              Case_transform(rename_all(Schema(T)), evs[i].name)
                  = Case_transform(rename_all(Schema(T)), get_root_names(Schema(T))[j]) }

\* the value of the element of evs at position i
ElementAt(T, evs, i) ==
    entry_result(deserialize(T, evs[i].name, evs, i + 1, evs[i].attrs, evs[i].k = "Empty"))

\* C28: with several declared roots, the entry point deserializes the first
\* element in document order named as any declared root, whatever the
\* order the roots are declared in.
C28_FirstInDocumentOrder ==
    (pc = "done" /\ ty = "Staff" /\ RootElements(ty, doc) # {})
        => SameValue(res, ElementAt(ty, doc, MinOf(RootElements(ty, doc))))

\* C28 for a document with one element named as a declared root
C28_OneRootElement ==
    (Cardinality(RootElements(ty, doc)) = 1) => C28_FirstInDocumentOrder

\* the named variants of variants answer to the string str
NamedString(variants, str) == is_some(XmlSerdeEnum_arms(variants, 1, str))

\* C29 as stated: every Status, a variant marked other with any string
\* included, is returned by deserialize from what serialize wrote for it.
C29_RoundTrip ==
    (pc \in {"shown", "both"}) =>
        XmlSerdeEnum_deserialize(StatusVariants, out) = Some(val)

\* C29: every Status is returned by deserialize from what serialize wrote
\* for it, except a variant marked other whose string is the xml value or a
\* mapped value of a named variant.
C29_RoundTripUnlessNamed ==
    (/\ pc \in {"shown", "both"}
     /\ ~(val[1] = "Other" /\ NamedString(StatusVariants, val[2])))
        => XmlSerdeEnum_deserialize(StatusVariants, out) = Some(val)

\* C29 happens: an Other with a string of no named variant was serialized
\* and is read back
C29_Witness ==
    /\ pc \in {"shown", "both"}
    /\ val = <<"Other", V_unknown>>
    /\ XmlSerdeEnum_deserialize(StatusVariants, out) = Some(val)

\* the events of evs from position i on close the elements of stack, the
\* names of the open elements innermost first, and their own, each Start
\* event by an End event of its name and in the order of nesting
RECURSIVE Balanced(_, _, _)
Balanced(evs, i, stack) ==
    IF i > Len(evs) THEN stack = <<>>
    ELSE CASE evs[i].k = "Start" -> Balanced(evs, i + 1, <<evs[i].name>> \o stack)
           [] evs[i].k = "End" ->
                /\ stack # <<>>
                /\ Head(stack) = evs[i].name
                /\ Balanced(evs, i + 1, Tail(stack))
           [] OTHER -> Balanced(evs, i + 1, stack)

\* C30: the events serialize writes for a value under a tag are balanced:
\* every Start event has its End event of the same name, the pairs are
\* nested, and no element is open at the end.
C30_Balanced ==
    (pc = "written") => Balanced(out, 1, <<>>)

\* C30 happens: an element was written open inside an open element
C30_Witness ==
    /\ pc = "written"
    /\ Balanced(out, 1, <<>>)
    /\ \E i \in 1..(Len(out) - 1) : out[i].k = "Start" /\ out[i + 1].k = "Start"

====
